---- MODULE Spec2Model ----
(***************************************************************************)
(* A model of immich-ts: the stack command's pair resolver                 *)
(* (src/src/commands/stack.ts), its paginated fetch and stack creation,    *)
(* and the auto-album command's location aggregation (src/src/index.ts).   *)
(*                                                                         *)
(* File names are sequences of one-character strings, so that the stem     *)
(* extraction (lastIndexOf / substring) is computed, not assumed.          *)
(* A regular expression is modelled by the language it denotes on the      *)
(* file names of the model: a cover or raw pattern tests the extension     *)
(* after the last dot and is given by its set of extensions, a stem        *)
(* pattern captures a leading run of characters of a class and is given    *)
(* by that class and by whether the run may be empty.                      *)
(***************************************************************************)
EXTENDS Integers, Sequences, FiniteSets, TLC

\* ------------------------------------------------------------------ bounds

\* Longest asset list handed to findMatchingPairs.
MaxAssets == 5

\* Longest asset list drawn, with repetition, from every catalog of three assets.
MaxDrawn == 3

\* `const size = 1000` of fetchAssets and searchAssetsByField, scaled down.
PageSize == 2

\* Most assets a search of the catalog matches.
MaxMatches == 4

\* Longest pair list handed to createStacks.
MaxPairs == 3

\* Most assets one field search of the auto-album command matches.
MaxFieldMatches == 2

\* Longest file name getFileStem is called with on its own.
MaxNameLen == 4

\* Most page requests of one fetch the model follows; the fetch has no such limit.
MaxPages == 4

\* ------------------------------------------------------- the pair resolver

VARIABLES
    catalog,                \* the catalog's assets: id -> originalFileName
    stacked,                \* the catalog's assets that belong to a stack
    assets,                 \* the input list, as far as the loop has consumed it
    coverPattern,           \* RegExp: set of extensions of \.(..)$
    rawPattern,             \* RegExp: set of extensions of \.(..)$
    stemPattern,            \* RegExp | undefined
    lastIndex,              \* lastIndex of the cover and of the raw RegExp
    firstRun,               \* what an earlier call on the same list returned
    stemToAssets,           \* Map<stem, {cover?, raw[]}>, in insertion order
    assetDetails,           \* Map<id, {fileName}>
    stemPatternMismatches,  \* Set<fileName>
    replacedCovers,         \* Array<{stem, oldFile, newFile}>
    pairs,                  \* AssetPair[]
    skippedNoMatch,         \* number
    groupIdx,               \* position of the finalization loop in stemToAssets
    pairsPc                 \* "classify" | "finalize" | "done"

pairVars == <<catalog, stacked, assets, coverPattern, rawPattern, stemPattern,
              lastIndex, firstRun, stemToAssets, assetDetails, stemPatternMismatches, replacedCovers, pairs,
              skippedNoMatch, groupIdx, pairsPc>>

\* ------------------------------------------------------ the paginated fetch

VARIABLES
    matching,               \* catalog side: the assets the query matches, in order
    fetchField,             \* "none" (fetchAssets) or the field of searchAssetsByField
    page,                   \* let page = 1
    result,                 \* const result: AssetData[]
    hasMore,                \* let hasMore = true
    requested,              \* the metadataSearchDto of every searchAssets call so far
    returned,               \* the items of every response so far
    inFlight,               \* searchAssets calls awaiting their response
    fetchPc                 \* "loop" | "await" | "done" | "failed" | "idle"

fetchVars == <<matching, fetchField, page, result, hasMore, requested,
               returned, inFlight, fetchPc>>

\* ------------------------------------------------------------ createStacks

VARIABLES
    pairIdx,                \* position of `for (const pair of pairs)`
    created,                \* let created = 0
    stackCalls,             \* the assetIds of every createStack call so far
    stackOutcomes,          \* "ok" | "error" for every call that has ended
    stacksInFlight,         \* createStack calls awaiting their end
    createPc                \* "loop" | "await" | "done" | "idle"

createVars == <<pairIdx, created, stackCalls, stackOutcomes, stacksInFlight,
                createPc>>

\* --------------------------------------------------------------- autoAlbum

VARIABLES
    albumName,              \* options.name
    locations,              \* options.locations
    dryRun,                 \* options.dryRun
    searchesInFlight,       \* per location, its searchAssets calls not yet answered
    catalogAlbums,          \* catalog side: the names of the albums that exist
    createdSinceListing,    \* catalog side: albums other clients created since
    allAlbums,              \* const allAlbums = await getAllAlbums({})
    locIdx,                 \* position of `for (const location of options.locations)`
    fetchers,               \* the three searchAssetsByField calls of the location
    completionOrder,        \* the fields in the order their fetches completed
    locationSearch,         \* const locationSearch = await findAssetsForLocation()
    allAssetIds,            \* const allAssetIds = new Set<string>(), in insertion order
    locationResults,        \* Array<{location, count}>
    locationIds,            \* per location searched, the ids its fetches returned
    albumCalls,             \* the createAlbumDto of every createAlbum call so far
    catalogAtCreate,        \* catalogAlbums at the moment of each createAlbum call
    exitStatus,             \* the number autoAlbum returns, -1 while it runs
    autoPc                  \* "precheck" | "search" | "joined" | "creating" | "done" | "idle"

albumVars == <<albumName, locations, dryRun, searchesInFlight, catalogAlbums,
               createdSinceListing, allAlbums, locIdx, fetchers, completionOrder, locationSearch,
               allAssetIds, locationResults, locationIds, albumCalls,
               catalogAtCreate, exitStatus, autoPc>>

\* ------------------------------------------- the commands and their options

VARIABLES
    stackOptions,           \* the StackOptions stack() is called with
    albumHasAssetList,      \* catalog side: does the album's info hold `assets`?
    fetched,                \* `let assets: AssetData[]` of stack(), by id
    albumInfoCalls,         \* getAlbumInfo calls issued so far
    stackExit,              \* exit status of the stack command, -1 while it runs
    stackPc,                \* "start" | "albumInfo" | "fetch" | "pairs" | "create" | "done" | "idle"
    albumDates,             \* options.after and options.before of autoAlbum
    listingCalls,           \* getAllAlbums calls issued so far
    thrown                  \* the error that left the command handler, or "none"

cmdVars == <<stackOptions, albumHasAssetList, fetched, albumInfoCalls, stackExit, stackPc,
             albumDates, listingCalls, thrown>>

\* ------------------------------------------------------------- getFileStem

VARIABLES
    stemFileName,           \* the fileName argument
    stemArg,                \* the stemPattern argument
    stemResult,             \* the string returned
    stemWarned,             \* the file names warnOnNoMatch was called with
    stemPc                  \* "call" | "returned" | "idle"

stemVars == <<stemFileName, stemArg, stemResult, stemWarned, stemPc>>

\* -------------------------------------------------------------------- main

VARIABLES
    parsed,                 \* what parseArgs did with the command line
    configOk,               \* whether getConfig finds a URL and an API key
    validateArgs,           \* the arguments of a validateRequiredOptions call
    validation,             \* what validateRequiredOptions returned
    handlerCalls,           \* the commands whose handler main invoked
    mainExit,               \* the number main returned, or NoExit
    mainPc                  \* "start" | "handler" | "returned" | "threw" |
                            \* "validate" | "validated" | "idle"

\* --------------------------------------------------------------- getConfig

VARIABLES
    overrides,              \* the baseurl and apikey overrides handed to getConfig
    env,                    \* process.env.IMMICH_URL and process.env.IMMICH_API_KEY
    configResult,           \* the Config returned, or the ConfigError thrown
    configPc                \* "call" | "returned" | "threw" | "idle"

configVars == <<overrides, env, configResult, configPc>>

\* ---------------------------------------------------------------- validate

VARIABLES
    validateConfig,         \* the config argument of validate
    validateResult,         \* result: ValidationResult
    validateCalls,          \* the requests validate issued, in order
    validateAnswers,        \* what those requests were answered with, in order
    validateExit,           \* the number validate returned, or NoExit
    validatePc              \* "start" | "ping" | "user" | "returned" | "idle"

validateVars == <<validateConfig, validateResult, validateCalls, validateAnswers,
                  validateExit, validatePc>>

mainVars == <<parsed, configOk, validateArgs, validation, handlerCalls, mainExit, mainPc,
              configVars, validateVars>>

vars == <<pairVars, fetchVars, createVars, albumVars, cmdVars, stemVars, mainVars>>

\* Asset ids of the catalog: opaque non-empty strings.
AssetIds == {"1", "2", "3"}

\* The assets of the catalog that are in a stack when the command starts:
\* none, the first asset, the last asset
StackedSets == { {}, {"1"}, {"3"} }

\* firstRun while findMatchingPairs has not returned yet
NoRun == [done |-> FALSE, assets |-> <<>>, pairs |-> <<>>, skippedNoMatch |-> 0,
          stemPatternMismatches |-> {}, replacedCovers |-> <<>>]

\* "a.j", "a.d", "b.j", "b.d", "a.m", "ab.d"
FileNames == { <<"a", ".", "j">>, <<"a", ".", "d">>, <<"b", ".", "j">>,
               <<"b", ".", "d">>, <<"a", ".", "m">>, <<"a", "b", ".", "d">> }

\* AssetData {id, originalFileName} of a catalog asset
AssetData(cat, id) == [id |-> id, originalFileName |-> cat[id]]

\* entry.cover of a group that has no cover yet
Undefined == "undefined"

\* The result of String.prototype.match: null, or the array whose element 1
\* is the first capture group
NoMatch == [matched |-> FALSE, group1 |-> <<>>]

\* stemPattern when no --stem-pattern is given
NoStemPattern == [defined |-> FALSE, class |-> {}, emptyOk |-> FALSE]

\* /\.(j)$/ and /\.(j|d)$/ : the second overlaps the raw pattern
CoverPatterns == { {"j"}, {"j", "d"} }
\* /\.(d)$/
RawPatterns == { {"d"} }
\* no --stem-pattern; a+ anchored at the start; a* anchored at the start
StemPatterns == { NoStemPattern,
                  [defined |-> TRUE, class |-> {"a"}, emptyOk |-> FALSE],
                  [defined |-> TRUE, class |-> {"a"}, emptyOk |-> TRUE] }

\* RegExp.prototype.test for a pattern \.(e1|e2|..)$ given by its extensions
RegexTest(pattern, fileName) ==
    /\ Len(fileName) >= 2
    /\ fileName[Len(fileName) - 1] = "."
    /\ fileName[Len(fileName)] \in pattern

\* compileRegex with the global flag: new RegExp(pattern, "g")
CompileFlagsGlobal == {"g"}

\* The flags of the RegExp compileRegex returns: new RegExp(pattern) has none
CompileFlags == {}

\* lastIndex of the cover and of the raw RegExp when compileRegex returns them
NewLastIndex == [cover |-> 0, raw |-> 0]

\* The 0-based index RegExp.prototype.test starts its search at: lastIndex
\* for a global or sticky RegExp, 0 for any other
TestStart(flags, li) == IF "g" \in flags \/ "y" \in flags THEN li ELSE 0

\* What a pattern \.(e1|e2|..)$ can match of fileName when the search starts
\* at index start: its match begins at the dot, index Len(fileName) - 2
PatternFrom(pattern, fileName, start) ==
    IF start <= Len(fileName) - 2 THEN pattern ELSE {}

\* lastIndex of the RegExp after test(fileName): a global or sticky RegExp
\* sets it to the end of the match, or to 0 when there is none
LastIndexAfter(flags, li, pattern, fileName) ==
    IF "g" \notin flags /\ "y" \notin flags THEN li
    ELSE IF /\ Len(fileName) >= 2
            /\ fileName[Len(fileName) - 1] = "."
            /\ fileName[Len(fileName)] \in PatternFrom(pattern, fileName, li)
         THEN Len(fileName)
         ELSE 0

\* The longest prefix of s whose characters are all in class (greedy match)
RECURSIVE LeadingRun(_, _)
LeadingRun(s, class) ==
    IF s = <<>> \/ Head(s) \notin class
    THEN <<>>
    ELSE <<Head(s)>> \o LeadingRun(Tail(s), class)

\* fileName.match(stemPattern) for a pattern capturing a leading run of class
RegexMatch(pattern, fileName) ==
    LET run == LeadingRun(fileName, pattern.class)
    IN  IF run = <<>> /\ ~pattern.emptyOk THEN NoMatch
        ELSE [matched |-> TRUE, group1 |-> run]

\* String.prototype.indexOf: 0-based index of the first ch, or -1
IndexOf(s, ch) ==
    LET hits == { i \in 1..Len(s) : s[i] = ch }
    IN  IF hits = {} THEN -1
        ELSE (CHOOSE i \in hits : \A j \in hits : i <= j) - 1

\* String.prototype.lastIndexOf: 0-based index of the last ch, or -1
LastIndexOf(s, ch) ==
    LET hits == { i \in 1..Len(s) : s[i] = ch }
    IN  IF hits = {} THEN -1
        ELSE (CHOOSE i \in hits : \A j \in hits : j <= i) - 1

\* StemFromPattern without the test that the first capture is not empty
StemFromPatternAnyMatch(fileName, sp) ==
    /\ sp.defined
    /\ RegexMatch(sp, fileName).matched

\* Does getFileStem take the stem from the stem pattern's first capture?
StemFromPattern(fileName, sp) ==
    /\ sp.defined
    /\ RegexMatch(sp, fileName).matched
    /\ RegexMatch(sp, fileName).group1 # <<>>

\* Does getFileStem call warnOnNoMatch for this file name?
WarnsOnNoMatch(fileName, sp) ==
    sp.defined /\ ~StemFromPattern(fileName, sp)

getFileStem(fileName, sp) ==
    IF StemFromPattern(fileName, sp)
    THEN RegexMatch(sp, fileName).group1
    ELSE LET lastDot == LastIndexOf(fileName, ".")
         IN  IF lastDot = -1 THEN fileName
             ELSE SubSeq(fileName, 1, lastDot)

\* The characters of the file names getFileStem is called with on its own
NameChars == {"a", "b", "."}

\* Every file name of up to MaxNameLen characters, the empty one included
NameStrings == UNION { [1..n -> NameChars] : n \in 0..MaxNameLen }

StemInit ==
    /\ stemFileName \in NameStrings
    /\ stemArg \in StemPatterns
    /\ stemResult = <<>>
    /\ stemWarned = {}
    /\ stemPc = "call"

\* One call getFileStem(fileName, stemPattern, warnOnNoMatch)
CallGetFileStem ==
    /\ UNCHANGED <<pairVars, fetchVars, createVars, albumVars, cmdVars, mainVars>>
    /\ stemPc = "call"
    /\ stemResult' = getFileStem(stemFileName, stemArg)
    /\ stemWarned' = IF WarnsOnNoMatch(stemFileName, stemArg)
                     THEN stemWarned \cup {stemFileName} ELSE stemWarned
    /\ stemPc' = "returned"
    /\ UNCHANGED <<stemFileName, stemArg>>

StemNext == CallGetFileStem

\* ---- Map<stem, entry> kept in insertion order, as JavaScript Maps are

MapHas(map, key) == \E i \in 1..Len(map) : map[i].key = key

\* MapIndex giving the first entry whatever the key
MapIndexFirst(map, key) == 1

MapIndex(map, key) == CHOOSE i \in 1..Len(map) : map[i].key = key

MapGet(map, key) == map[MapIndex(map, key)]

\* EnsureEntry putting a new group in front of the groups seen before
EnsureEntryInFront(map, stem) ==
    IF \E i \in 1..Len(map) : map[i].key = stem THEN map
    ELSE <<[key |-> stem, cover |-> Undefined, raw |-> <<>>]>> \o map

\* stemToAssets.set(stem, {cover: undefined, raw: []}) when the stem is new
EnsureEntry(map, stem) ==
    IF MapHas(map, stem) THEN map
    ELSE Append(map, [key |-> stem, cover |-> Undefined, raw |-> <<>>])

\* if (entry.cover): a string is truthy unless it is undefined (ids are non-empty)
HasCover(entry) == entry.cover # Undefined

\* Classify with the raw test first
ClassifyRawFirst(fileName, cp, rp) ==
    IF RegexTest(rp, fileName) THEN "raw"
    ELSE IF RegexTest(cp, fileName) THEN "cover"
    ELSE "unclassified"

\* The role the loop body gives an asset: the cover test comes first
Classify(fileName, cp, rp) ==
    IF RegexTest(cp, fileName) THEN "cover"
    ELSE IF RegexTest(rp, fileName) THEN "raw"
    ELSE "unclassified"

\* UpdateEntry pushing a cover on the raw list of its stem as well
UpdateEntryCoverAlsoRaw(entry, asset, role) ==
    IF role = "cover"
    THEN [entry EXCEPT !.cover = asset.id, !.raw = Append(@, asset.id)]
    ELSE IF role = "raw" THEN [entry EXCEPT !.raw = Append(@, asset.id)]
    ELSE entry

\* UpdateEntry keeping the first cover of a stem instead of the last
UpdateEntryFirstWins(entry, asset, role) ==
    IF role = "cover"
    THEN IF entry.cover = Undefined THEN [entry EXCEPT !.cover = asset.id] ELSE entry
    ELSE IF role = "raw" THEN [entry EXCEPT !.raw = Append(@, asset.id)]
    ELSE entry

\* UpdateEntry leaving out a raw id the group's raw list already holds
UpdateEntryRawOnce(entry, asset, role) ==
    IF role = "cover" THEN [entry EXCEPT !.cover = asset.id]
    ELSE IF role = "raw" /\ \A k \in 1..Len(entry.raw) : entry.raw[k] # asset.id
    THEN [entry EXCEPT !.raw = Append(@, asset.id)]
    ELSE entry

\* The entry of the asset's stem after the if / else-if of the loop body
UpdateEntry(entry, asset, role) ==
    IF role = "cover" THEN [entry EXCEPT !.cover = asset.id]
    ELSE IF role = "raw" THEN [entry EXCEPT !.raw = Append(@, asset.id)]
    ELSE entry

\* RecordReplaced overwriting the cover without recording the event
RecordReplacedNever(events, entry, details, stem, asset, role) == events

\* The replaced-cover events after the loop body has run for asset
RecordReplaced(events, entry, details, stem, asset, role) ==
    IF role = "cover" /\ HasCover(entry)
    THEN Append(events, [stem |-> stem,
                         oldFile |-> details[entry.cover].fileName,
                         newFile |-> asset.originalFileName])
    ELSE events

PairsInit ==
    /\ catalog \in [AssetIds -> FileNames]
    /\ stacked = {}
    /\ assets = <<>>
    /\ coverPattern \in CoverPatterns
    /\ rawPattern \in RawPatterns
    /\ lastIndex = NewLastIndex
    /\ firstRun = NoRun
    /\ stemPattern \in StemPatterns
    /\ stemToAssets = <<>>
    /\ assetDetails = [id \in {} |-> [fileName |-> <<>>]]
    /\ stemPatternMismatches = {}
    /\ replacedCovers = <<>>
    /\ pairs = <<>>
    /\ skippedNoMatch = 0
    /\ groupIdx = 1
    /\ pairsPc = "classify"

\* A loop body that leaves assetDetails as it is
SetDetailsNever(details, asset) == details

\* assetDetails.set(asset.id, {fileName: asset.originalFileName})
SetDetails(details, asset) ==
    (asset.id :> [fileName |-> asset.originalFileName]) @@ details

\* One iteration of `for (const asset of assets)`
ClassifyAsset(asset) ==
    /\ UNCHANGED <<fetchVars, createVars, albumVars, cmdVars, stemVars, mainVars>>
    /\ pairsPc = "classify"
    /\ Len(assets) < MaxAssets
    /\ LET fileName == asset.originalFileName
           stem     == getFileStem(fileName, stemPattern)
           coverAt  == TestStart(CompileFlags, lastIndex.cover)
           rawAt    == TestStart(CompileFlags, lastIndex.raw)
           role     == Classify(fileName,
                                PatternFrom(coverPattern, fileName, coverAt),
                                PatternFrom(rawPattern, fileName, rawAt))
           details  == SetDetails(assetDetails, asset)
           map      == EnsureEntry(stemToAssets, stem)
           i        == MapIndex(map, stem)
           entry    == map[i]
       IN  /\ assets' = Append(assets, asset)
           /\ stemPatternMismatches' =
                 IF WarnsOnNoMatch(fileName, stemPattern)
                 THEN stemPatternMismatches \cup {fileName}
                 ELSE stemPatternMismatches
           /\ assetDetails' = details
           /\ replacedCovers' =
                 RecordReplaced(replacedCovers, entry, details, stem, asset, role)
           /\ stemToAssets' = [map EXCEPT ![i] = UpdateEntry(entry, asset, role)]
           /\ lastIndex' =
                 [cover |-> LastIndexAfter(CompileFlags, lastIndex.cover,
                                           coverPattern, fileName),
                  raw   |-> LastIndexAfter(CompileFlags, lastIndex.raw,
                                           rawPattern, fileName)]
    /\ UNCHANGED <<catalog, stacked, firstRun, coverPattern, rawPattern,
                   stemPattern, pairs,
                   skippedNoMatch, groupIdx, pairsPc>>

\* The input list is exhausted: the warnings are printed, finalization starts
EndOfAssets ==
    /\ UNCHANGED <<fetchVars, createVars, albumVars, cmdVars, stemVars, mainVars>>
    /\ pairsPc = "classify"
    /\ pairsPc' = "finalize"
    /\ UNCHANGED <<catalog, stacked, firstRun, assets, coverPattern, rawPattern,
                   stemPattern, lastIndex, stemToAssets,
                   assetDetails, stemPatternMismatches, replacedCovers, pairs,
                   skippedNoMatch, groupIdx>>

\* The pairs one group contributes: one per raw id, all with the group's cover
GroupPairs(entry, details) ==
    IF HasCover(entry) /\ Len(entry.raw) > 0
    THEN [k \in 1..Len(entry.raw) |->
            [coverAssetId  |-> entry.cover,
             coverFileName |-> details[entry.cover].fileName,
             rawAssetId    |-> entry.raw[k],
             rawFileName   |-> details[entry.raw[k]].fileName,
             stem          |-> entry.key]]
    ELSE <<>>

\* GroupSkipped without the cover-only branch
GroupSkippedRawOnly(entry) ==
    IF ~HasCover(entry) /\ Len(entry.raw) > 0 THEN Len(entry.raw) ELSE 0

\* What one group adds to skippedNoMatch
GroupSkipped(entry) ==
    IF HasCover(entry) /\ Len(entry.raw) > 0 THEN 0
    ELSE IF ~HasCover(entry) /\ Len(entry.raw) > 0 THEN Len(entry.raw)
    ELSE IF HasCover(entry) /\ Len(entry.raw) = 0 THEN 1
    ELSE 0

\* One iteration of `for (const [stem, stemAssets] of stemToAssets)`
FinalizeGroup ==
    /\ UNCHANGED <<fetchVars, createVars, albumVars, cmdVars, stemVars, mainVars>>
    /\ pairsPc = "finalize"
    /\ groupIdx <= Len(stemToAssets)
    /\ pairs' = pairs \o GroupPairs(stemToAssets[groupIdx], assetDetails)
    /\ skippedNoMatch' = skippedNoMatch + GroupSkipped(stemToAssets[groupIdx])
    /\ groupIdx' = groupIdx + 1
    /\ UNCHANGED <<catalog, stacked, firstRun, assets, coverPattern, rawPattern,
                   stemPattern, lastIndex, stemToAssets,
                   assetDetails, stemPatternMismatches, replacedCovers, pairsPc>>

\* return { pairs, skippedNoMatch, stacksCreated: 0 }
ReturnPairs ==
    /\ UNCHANGED <<fetchVars, createVars, albumVars, cmdVars, stemVars, mainVars>>
    /\ pairsPc = "finalize"
    /\ groupIdx > Len(stemToAssets)
    /\ pairsPc' = "done"
    /\ UNCHANGED <<catalog, stacked, firstRun, assets, coverPattern, rawPattern,
                   stemPattern, lastIndex, stemToAssets,
                   assetDetails, stemPatternMismatches, replacedCovers, pairs,
                   skippedNoMatch, groupIdx>>

\* The state of findMatchingPairs while another part of the program runs
PairsIdle ==
    /\ catalog = [id \in AssetIds |-> <<>>]
    /\ stacked = {}
    /\ assets = <<>>
    /\ coverPattern = {}
    /\ rawPattern = {}
    /\ lastIndex = NewLastIndex
    /\ firstRun = NoRun
    /\ stemPattern = NoStemPattern
    /\ stemToAssets = <<>>
    /\ assetDetails = [id \in {} |-> [fileName |-> <<>>]]
    /\ stemPatternMismatches = {}
    /\ replacedCovers = <<>>
    /\ pairs = <<>>
    /\ skippedNoMatch = 0
    /\ groupIdx = 1
    /\ pairsPc = "idle"

PairsNext ==
    \/ \E id \in AssetIds :
          Len(assets) < MaxDrawn /\ ClassifyAsset(AssetData(catalog, id))
    \/ EndOfAssets
    \/ FinalizeGroup
    \/ ReturnPairs

\* Asset ids of the catalogs on which the order of the pairs is checked
OrderAssetIds == {"1", "2", "3", "4", "5"}

\* An asset neither pattern matches and two stems with a cover and a raw;
\* a stem with a cover and two raws and a stem with a cover and a raw
OrderCatalogs ==
    { [id \in OrderAssetIds |->
          IF id = "1" THEN <<"a", ".", "m">>
          ELSE IF id = "2" THEN <<"a", ".", "j">>
          ELSE IF id = "3" THEN <<"a", ".", "d">>
          ELSE IF id = "4" THEN <<"b", ".", "j">> ELSE <<"b", ".", "d">>],
      [id \in OrderAssetIds |->
          IF id = "1" THEN <<"a", ".", "j">>
          ELSE IF id = "2" THEN <<"a", ".", "d">>
          ELSE IF id = "3" THEN <<"a", ".", "d">>
          ELSE IF id = "4" THEN <<"b", ".", "j">> ELSE <<"b", ".", "d">>] }

PairsOrderInit ==
    /\ catalog \in OrderCatalogs
    /\ stacked = {}
    /\ assets = <<>>
    /\ coverPattern \in CoverPatterns
    /\ rawPattern \in RawPatterns
    /\ lastIndex = NewLastIndex
    /\ firstRun = NoRun
    /\ stemPattern \in StemPatterns
    /\ stemToAssets = <<>>
    /\ assetDetails = [id \in {} |-> [fileName |-> <<>>]]
    /\ stemPatternMismatches = {}
    /\ replacedCovers = <<>>
    /\ pairs = <<>>
    /\ skippedNoMatch = 0
    /\ groupIdx = 1
    /\ pairsPc = "classify"

\* findMatchingPairs on the lists that hold each asset of the catalog at most
\* once, as a fetch returns them
PairsOrderNext ==
    \/ \E id \in OrderAssetIds :
          /\ \A i \in 1..Len(assets) : assets[i].id # id
          /\ ClassifyAsset(AssetData(catalog, id))
    \/ EndOfAssets
    \/ FinalizeGroup
    \/ ReturnPairs

\* The file names of the catalogs findMatchingPairs is called twice on
TwiceFileNames == { <<"a", ".", "j">>, <<"a", ".", "d">>, <<"b", ".", "j">>,
                    <<"b", ".", "d">> }

PairsTwiceInit ==
    /\ catalog \in [AssetIds -> TwiceFileNames]
    /\ stacked = {}
    /\ assets = <<>>
    /\ coverPattern \in CoverPatterns
    /\ rawPattern \in RawPatterns
    /\ lastIndex = NewLastIndex
    /\ firstRun = NoRun
    /\ stemPattern \in StemPatterns
    /\ stemToAssets = <<>>
    /\ assetDetails = [id \in {} |-> [fileName |-> <<>>]]
    /\ stemPatternMismatches = {}
    /\ replacedCovers = <<>>
    /\ pairs = <<>>
    /\ skippedNoMatch = 0
    /\ groupIdx = 1
    /\ pairsPc = "classify"

\* findMatchingPairs has returned and is called again with the same list and
\* the same RegExp objects: its maps, its set, its arrays and its counter are
\* created anew, what the first call returned is kept by the caller
ResolveAgain ==
    /\ UNCHANGED <<fetchVars, createVars, albumVars, cmdVars, stemVars, mainVars>>
    /\ pairsPc = "done"
    /\ ~firstRun.done
    /\ firstRun' = [done |-> TRUE, assets |-> assets, pairs |-> pairs,
                    skippedNoMatch |-> skippedNoMatch,
                    stemPatternMismatches |-> stemPatternMismatches,
                    replacedCovers |-> replacedCovers]
    /\ assets' = <<>>
    /\ stemToAssets' = <<>>
    /\ assetDetails' = [id \in {} |-> [fileName |-> <<>>]]
    /\ stemPatternMismatches' = {}
    /\ replacedCovers' = <<>>
    /\ pairs' = <<>>
    /\ skippedNoMatch' = 0
    /\ groupIdx' = 1
    /\ pairsPc' = "classify"
    /\ UNCHANGED <<catalog, stacked, coverPattern, rawPattern, stemPattern, lastIndex>>

\* findMatchingPairs on a list, then once more on the same list
PairsTwiceNext ==
    \/ \E id \in AssetIds :
          /\ ~firstRun.done
          /\ Len(assets) < MaxDrawn
          /\ ClassifyAsset(AssetData(catalog, id))
    \/ /\ firstRun.done
       /\ Len(assets) < Len(firstRun.assets)
       /\ ClassifyAsset(firstRun.assets[Len(assets) + 1])
    \/ /\ firstRun.done => Len(assets) = Len(firstRun.assets)
       /\ EndOfAssets
    \/ FinalizeGroup
    \/ ReturnPairs
    \/ ResolveAgain

\* ------------------------------------- fetchAssets and searchAssetsByField

\* fetchAssets sends no field filter; searchAssetsByField sends one of these
LOCATION_FIELDS == <<"city", "country", "state">>

Min(a, b) == IF a < b THEN a ELSE b

\* A query that matches at least a full page of assets at every page number
EndlessCatalog == <<"endless">>

\* The catalog's answer to searchAssets({page, size}): the page-th slice of
\* the assets the query matches
SearchPage(matches, p, size) ==
    IF matches = EndlessCatalog
    THEN [k \in 1..size |-> "1"]
    ELSE SubSeq(matches, (p - 1) * size + 1, Min(p * size, Len(matches)))

\* The request body of one loop iteration
MetadataSearchDto(p, size, field) == [page |-> p, size |-> size, field |-> field]

\* IsLastPage stopping on an empty page only
IsLastPageWhenEmpty(items, size) == Len(items) = 0

\* if (assets.length < size) hasMore = false
IsLastPage(items, size) == Len(items) < size

\* The state of the fetch while another part of the program runs
FetchIdle ==
    /\ matching = <<>>
    /\ fetchField = "none"
    /\ page = 1
    /\ result = <<>>
    /\ hasMore = TRUE
    /\ requested = <<>>
    /\ returned = <<>>
    /\ inFlight = 0
    /\ fetchPc = "idle"

FetchInit ==
    /\ matching \in UNION { [1..n -> AssetIds] : n \in 0..MaxMatches }
    /\ fetchField \in {"none", "city", "country", "state"}
    /\ page = 1
    /\ result = <<>>
    /\ hasMore = TRUE
    /\ requested = <<>>
    /\ returned = <<>>
    /\ inFlight = 0
    /\ fetchPc = "loop"

\* while (hasMore) { ... await searchAssets({page, size, ...}) : the call is sent
SendSearch ==
    /\ UNCHANGED <<pairVars, createVars, albumVars, cmdVars, stemVars, mainVars>>
    /\ fetchPc = "loop"
    /\ hasMore
    /\ Len(requested) < MaxPages
    /\ requested' = Append(requested, MetadataSearchDto(page, PageSize, fetchField))
    /\ inFlight' = inFlight + 1
    /\ fetchPc' = "await"
    /\ UNCHANGED <<matching, fetchField, page, result, hasMore, returned>>

\* ReceivePage going on to the next page after a short page as well
ReceivePageNeverLast ==
    /\ UNCHANGED <<pairVars, createVars, albumVars, cmdVars, stemVars, mainVars>>
    /\ fetchPc = "await"
    /\ LET items == SearchPage(matching, page, PageSize)
       IN  /\ returned' = Append(returned, items)
           /\ result' = result \o items
           /\ hasMore' = hasMore
           /\ page' = page + 1
    /\ inFlight' = inFlight - 1
    /\ fetchPc' = "loop"
    /\ UNCHANGED <<matching, fetchField, requested>>

\* The response arrives: its items are pushed, then hasMore or page is updated
ReceivePage ==
    /\ UNCHANGED <<pairVars, createVars, albumVars, cmdVars, stemVars, mainVars>>
    /\ fetchPc = "await"
    /\ LET items == SearchPage(matching, page, PageSize)
       IN  /\ returned' = Append(returned, items)
           /\ result' = result \o items
           /\ hasMore' = IF IsLastPage(items, PageSize) THEN FALSE ELSE hasMore
           /\ page' = IF IsLastPage(items, PageSize) THEN page ELSE page + 1
    /\ inFlight' = inFlight - 1
    /\ fetchPc' = "loop"
    /\ UNCHANGED <<matching, fetchField, requested>>

\* The call rejects: the error leaves the loop and the function
SearchFails ==
    /\ UNCHANGED <<pairVars, createVars, albumVars, cmdVars, stemVars, mainVars>>
    /\ fetchPc = "await"
    /\ inFlight' = inFlight - 1
    /\ fetchPc' = "failed"
    /\ UNCHANGED <<matching, fetchField, page, result, hasMore, requested, returned>>

\* return result
ReturnResult ==
    /\ UNCHANGED <<pairVars, createVars, albumVars, cmdVars, stemVars, mainVars>>
    /\ fetchPc = "loop"
    /\ ~hasMore
    /\ fetchPc' = "done"
    /\ UNCHANGED <<matching, fetchField, page, result, hasMore, requested,
                   returned, inFlight>>

FetchNext ==
    \/ SendSearch
    \/ ReceivePage
    \/ SearchFails
    \/ ReturnResult

\* ------------------------------------------------------------ createStacks

\* An AssetPair as findMatchingPairs builds it; createStacks sends the two ids
\* and prints the rest
AssetPair(coverId, rawId) ==
    [coverAssetId  |-> coverId,
     coverFileName |-> <<"a", ".", "j">>,
     rawAssetId    |-> rawId,
     rawFileName   |-> <<"a", ".", "d">>,
     stem          |-> <<"a">>]

AssetPairs == { AssetPair(c, r) : c \in AssetIds, r \in AssetIds }

\* stackCreateDto.assetIds of the call for a pair
StackAssetIds(pair) == <<pair.coverAssetId, pair.rawAssetId>>

\* The loop position after a call failed, without the try / catch
AfterFailureAbort(i, n) == n + 1

\* The loop position after a call failed: the catch block logs, the loop goes on
AfterFailure(i, n) == i + 1

\* The state of createStacks while another part of the program runs
CreateIdle ==
    /\ pairIdx = 1
    /\ created = 0
    /\ stackCalls = <<>>
    /\ stackOutcomes = <<>>
    /\ stacksInFlight = 0
    /\ createPc = "idle"

CreateInit ==
    /\ pairIdx = 1
    /\ created = 0
    /\ stackCalls = <<>>
    /\ stackOutcomes = <<>>
    /\ stacksInFlight = 0
    /\ createPc = "loop"

\* The pair list createStacks is called with
CreateInput ==
    /\ catalog = [id \in AssetIds |-> <<>>]
    /\ stacked = {}
    /\ assets = <<>>
    /\ coverPattern = {}
    /\ rawPattern = {}
    /\ lastIndex = NewLastIndex
    /\ firstRun = NoRun
    /\ stemPattern = NoStemPattern
    /\ stemToAssets = <<>>
    /\ assetDetails = [id \in {} |-> [fileName |-> <<>>]]
    /\ stemPatternMismatches = {}
    /\ replacedCovers = <<>>
    /\ pairs \in UNION { [1..n -> AssetPairs] : n \in 0..MaxPairs }
    /\ skippedNoMatch = 0
    /\ groupIdx = 1
    /\ pairsPc = "done"

\* await createStack({stackCreateDto: {assetIds: [cover, raw]}}) : the call is sent
SendCreateStack ==
    /\ UNCHANGED <<pairVars, fetchVars, albumVars, cmdVars, stemVars, mainVars>>
    /\ createPc = "loop"
    /\ pairIdx <= Len(pairs)
    /\ stackCalls' = Append(stackCalls, StackAssetIds(pairs[pairIdx]))
    /\ stacksInFlight' = stacksInFlight + 1
    /\ createPc' = "await"
    /\ UNCHANGED <<pairIdx, created, stackOutcomes>>

\* The call resolves: created++, the stack is logged
CreateStackSucceeds ==
    /\ UNCHANGED <<pairVars, fetchVars, albumVars, cmdVars, stemVars, mainVars>>
    /\ createPc = "await"
    /\ created' = created + 1
    /\ stackOutcomes' = Append(stackOutcomes, "ok")
    /\ stacksInFlight' = stacksInFlight - 1
    /\ pairIdx' = pairIdx + 1
    /\ createPc' = "loop"
    /\ UNCHANGED stackCalls

\* The call rejects: the catch block logs the failure
CreateStackFails ==
    /\ UNCHANGED <<pairVars, fetchVars, albumVars, cmdVars, stemVars, mainVars>>
    /\ createPc = "await"
    /\ stackOutcomes' = Append(stackOutcomes, "error")
    /\ stacksInFlight' = stacksInFlight - 1
    /\ pairIdx' = AfterFailure(pairIdx, Len(pairs))
    /\ createPc' = "loop"
    /\ UNCHANGED <<created, stackCalls>>

\* return created
ReturnCreated ==
    /\ UNCHANGED <<pairVars, fetchVars, albumVars, cmdVars, stemVars, mainVars>>
    /\ createPc = "loop"
    /\ pairIdx > Len(pairs)
    /\ createPc' = "done"
    /\ UNCHANGED <<pairIdx, created, stackCalls, stackOutcomes, stacksInFlight>>

CreateNext ==
    \/ SendCreateStack
    \/ CreateStackSucceeds
    \/ CreateStackFails
    \/ ReturnCreated

\* --------------------------------------------------------------- autoAlbum

\* Asset ids the location searches return
AlbumAssetIds == {"1", "2"}

\* Album names: the target and a name that differs from it in letter case only
AlbumNames == {"Trip", "trip"}

\* The --location lists tried
LocationLists == { <<>>, <<"Rome">>, <<"Rome", "Vatican">> }

\* The --location lists tried while other clients create albums
RaceLocationLists == { <<>>, <<"Rome">> }

Fields == { LOCATION_FIELDS[i] : i \in 1..Len(LOCATION_FIELDS) }

\* A searchAssetsByField call that was not started
IdleFetcher == [page |-> 1, result |-> <<>>, status |-> "idle"]

\* searchAssetsByField up to its first await: page 1 is requested
StartedFetcher == [page |-> 1, result |-> <<>>, status |-> "await"]

\* locationSearch before the first location is searched
NoSearch == [assets |-> <<>>, countsByField |-> [f \in Fields |-> 0]]

\* The pages the catalog may answer a field search with, given what the
\* search has returned so far
PagesAfter(got) ==
    UNION { [1..n -> AlbumAssetIds] :
              n \in 0..Min(PageSize, MaxFieldMatches - Len(got)) }

\* searchAssetsByField after a response: the items are pushed, then either the
\* loop ends or the next page is requested
FetcherAfter(fetcher, items) ==
    IF IsLastPage(items, PageSize)
    THEN [fetcher EXCEPT !.result = @ \o items, !.status = "done"]
    ELSE [fetcher EXCEPT !.result = @ \o items, !.page = @ + 1]

\* The array Promise.all resolves to, taken in the order the fetches completed
SearchResultsAsCompleted(fs, order) ==
    [i \in 1..Len(order) |-> [field |-> order[i], assets |-> fs[order[i]].result]]

\* The array Promise.all resolves to: one {field, assets} per field, in the
\* order of LOCATION_FIELDS
SearchResults(fs, order) ==
    [i \in 1..Len(LOCATION_FIELDS) |->
        [field |-> LOCATION_FIELDS[i], assets |-> fs[LOCATION_FIELDS[i]].result]]

\* allResults.push(...assets) for every search result
RECURSIVE AllResults(_)
AllResults(searchResults) ==
    IF searchResults = <<>> THEN <<>>
    ELSE Head(searchResults).assets \o AllResults(Tail(searchResults))

\* findAssetsForLocation returning allResults as they are
UniqueResultsKeepsAll(list, seenIds) == list

\* The loop over allResults: an asset is pushed unless its id was seen
RECURSIVE UniqueResults(_, _)
UniqueResults(list, seenIds) ==
    IF list = <<>> THEN <<>>
    ELSE IF Head(list) \in seenIds THEN UniqueResults(Tail(list), seenIds)
    ELSE <<Head(list)>> \o UniqueResults(Tail(list), seenIds \cup {Head(list)})

\* CountsByField counting for each field the assets no earlier result holds
CountsByFieldUnique(searchResults) ==
    [f \in Fields |->
        LET i == CHOOSE j \in 1..Len(searchResults) : searchResults[j].field = f
        IN  Len(UniqueResults(searchResults[i].assets,
                    { x \in AlbumAssetIds :
                        \E j \in 1..(i - 1) :
                            \E k \in 1..Len(searchResults[j].assets) :
                                searchResults[j].assets[k] = x }))]

\* countsByField after `countsByField[field] = assets.length` for every
\* search result; a field without a result keeps its 0
CountsByField(searchResults) ==
    [f \in Fields |->
        IF \E j \in 1..Len(searchResults) : searchResults[j].field = f
        THEN LET i == CHOOSE j \in 1..Len(searchResults) : searchResults[j].field = f
             IN  Len(searchResults[i].assets)
        ELSE 0]

findAssetsForLocation(fs, order) ==
    LET searchResults == SearchResults(fs, order)
    IN  [assets |-> UniqueResults(AllResults(searchResults), {}),
         countsByField |-> CountsByField(searchResults)]

\* albumExistsByName with every in place of some
AlbumExistsEvery(albums, name) == \A album \in albums : album = name

\* Lower case of the album names of the model
ToLowerCase(name) == IF name = "Trip" THEN "trip" ELSE name

\* albumExistsByName comparing without regard to letter case
AlbumExistsIgnoringCase(albums, name) ==
    \E album \in albums : ToLowerCase(album) = ToLowerCase(name)

\* albums.some((album) => album.albumName === name)
albumExistsByName(albums, name) == \E album \in albums : album = name

\* NewAssets without the subtraction of the assets already seen
NewAssetsUnfiltered(found, seen) == found

\* locationSearch.assets.filter((asset) => !allAssetIds.has(asset.id))
NewAssets(found, seen) ==
    SelectSeq(found, LAMBDA id : \A k \in 1..Len(seen) : seen[k] # id)

\* AddAll into a set that is created anew for every location
AddAllToFreshSet(set, ids) == ids

\* allAssetIds.add(asset.id) for every new asset: a Set keeps insertion order
\* and ignores a value it holds
RECURSIVE AddAll(_, _)
AddAll(set, ids) ==
    IF ids = <<>> THEN set
    ELSE AddAll(IF \E k \in 1..Len(set) : set[k] = Head(ids)
                THEN set ELSE Append(set, Head(ids)),
                Tail(ids))

\* The state of autoAlbum while another part of the program runs
AlbumIdle ==
    /\ albumName = "Trip"
    /\ locations = <<>>
    /\ dryRun = FALSE
    /\ searchesInFlight = <<>>
    /\ catalogAlbums = {}
    /\ createdSinceListing = {}
    /\ allAlbums = {}
    /\ locIdx = 1
    /\ fetchers = [f \in Fields |-> IdleFetcher]
    /\ completionOrder = <<>>
    /\ locationSearch = NoSearch
    /\ allAssetIds = <<>>
    /\ locationResults = <<>>
    /\ locationIds = <<>>
    /\ albumCalls = <<>>
    /\ catalogAtCreate = <<>>
    /\ exitStatus = -1
    /\ autoPc = "idle"

\* autoAlbum up to `await getAllAlbums({})`, with valid dates
AlbumInit ==
    /\ albumName = "Trip"
    /\ locations \in LocationLists
    /\ dryRun \in BOOLEAN
    /\ searchesInFlight = [k \in 1..Len(locations) |-> 0]
    /\ catalogAlbums \in SUBSET AlbumNames
    /\ createdSinceListing = {}
    /\ allAlbums = {}
    /\ locIdx = 1
    /\ fetchers = [f \in Fields |-> IdleFetcher]
    /\ completionOrder = <<>>
    /\ locationSearch = NoSearch
    /\ allAssetIds = <<>>
    /\ locationResults = <<>>
    /\ locationIds = <<>>
    /\ albumCalls = <<>>
    /\ catalogAtCreate = <<>>
    /\ exitStatus = -1
    /\ autoPc = "precheck"

\* ContinueFrom returning 0 without a createAlbum call when no asset was found
ContinueFromSkipsEmpty(idx, ids) ==
    /\ locIdx' = idx
    /\ completionOrder' = <<>>
    /\ IF idx <= Len(locations)
       THEN /\ fetchers' = [f \in Fields |-> [page |-> 1, result |-> <<>>,
                                                status |-> "await"]]
            /\ searchesInFlight' =
                  [searchesInFlight EXCEPT ![idx] = @ + Len(LOCATION_FIELDS)]
            /\ autoPc' = "search"
            /\ UNCHANGED <<albumCalls, catalogAtCreate, exitStatus>>
       ELSE /\ fetchers' = [f \in Fields |-> [page |-> 1, result |-> <<>>,
                                                status |-> "idle"]]
            /\ UNCHANGED searchesInFlight
            /\ IF dryRun \/ ids = <<>>
               THEN /\ exitStatus' = 0
                    /\ autoPc' = "done"
                    /\ UNCHANGED <<albumCalls, catalogAtCreate>>
               ELSE /\ albumCalls' = Append(albumCalls,
                           [albumName |-> albumName, assetIds |-> ids])
                    /\ catalogAtCreate' = Append(catalogAtCreate, catalogAlbums)
                    /\ autoPc' = "creating"
                    /\ UNCHANGED exitStatus

\* autoAlbum from the head of the location loop to its next await, with ids the
\* value of allAssetIds: the searches of location idx are started, or, after the
\* last location, the summary is printed and the dry run returns 0 or
\* createAlbum is called
ContinueFrom(idx, ids) ==
    /\ locIdx' = idx
    /\ completionOrder' = <<>>
    /\ IF idx <= Len(locations)
       THEN /\ fetchers' = [f \in Fields |-> StartedFetcher]
            /\ searchesInFlight' =
                  [searchesInFlight EXCEPT ![idx] = @ + Len(LOCATION_FIELDS)]
            /\ autoPc' = "search"
            /\ UNCHANGED <<albumCalls, catalogAtCreate, exitStatus>>
       ELSE /\ fetchers' = [f \in Fields |-> IdleFetcher]
            /\ UNCHANGED searchesInFlight
            /\ IF dryRun
               THEN /\ exitStatus' = 0
                    /\ autoPc' = "done"
                    /\ UNCHANGED <<albumCalls, catalogAtCreate>>
               ELSE /\ albumCalls' = Append(albumCalls,
                           [albumName |-> albumName, assetIds |-> ids])
                    /\ catalogAtCreate' = Append(catalogAtCreate, catalogAlbums)
                    /\ autoPc' = "creating"
                    /\ UNCHANGED exitStatus

\* getAllAlbums answers: the name conflict ends the command with 1, otherwise
\* the location loop starts
ReceiveAlbums ==
    /\ UNCHANGED <<pairVars, fetchVars, createVars, cmdVars, stemVars, mainVars>>
    /\ autoPc = "precheck"
    /\ allAlbums' = catalogAlbums
    /\ createdSinceListing' = {}
    /\ IF albumExistsByName(catalogAlbums, albumName)
       THEN /\ exitStatus' = 1
            /\ autoPc' = "done"
            /\ UNCHANGED <<locIdx, fetchers, completionOrder, albumCalls,
                           catalogAtCreate, searchesInFlight>>
       ELSE ContinueFrom(1, allAssetIds)
    /\ UNCHANGED <<albumName, locations, dryRun, catalogAlbums, locationSearch,
                   allAssetIds, locationResults, locationIds>>

\* ReceiveFieldPage with one result array shared by the three fetches
ReceiveFieldPageShared(field, items) ==
    /\ UNCHANGED <<pairVars, fetchVars, createVars, cmdVars, stemVars, mainVars>>
    /\ autoPc = "search"
    /\ fetchers[field].status = "await"
    /\ fetchers' = [f \in Fields |->
                        IF f = field THEN FetcherAfter(fetchers[f], items)
                        ELSE [fetchers[f] EXCEPT !.result = @ \o items]]
    /\ completionOrder' =
          IF IsLastPage(items, PageSize) THEN Append(completionOrder, field)
          ELSE completionOrder
    /\ searchesInFlight' =
          IF IsLastPage(items, PageSize)
          THEN [searchesInFlight EXCEPT ![locIdx] = @ - 1]
          ELSE searchesInFlight
    /\ UNCHANGED <<albumName, locations, dryRun, catalogAlbums,
                   createdSinceListing, allAlbums, locIdx, locationSearch,
                   allAssetIds, locationResults, locationIds, albumCalls,
                   catalogAtCreate, exitStatus, autoPc>>

\* One searchAssets call of the location answers
ReceiveFieldPage(field, items) ==
    /\ UNCHANGED <<pairVars, fetchVars, createVars, cmdVars, stemVars, mainVars>>
    /\ autoPc = "search"
    /\ fetchers[field].status = "await"
    /\ fetchers' = [fetchers EXCEPT ![field] = FetcherAfter(@, items)]
    /\ completionOrder' =
          IF IsLastPage(items, PageSize) THEN Append(completionOrder, field)
          ELSE completionOrder
    /\ searchesInFlight' =
          IF IsLastPage(items, PageSize)
          THEN [searchesInFlight EXCEPT ![locIdx] = @ - 1]
          ELSE searchesInFlight
    /\ UNCHANGED <<albumName, locations, dryRun, catalogAlbums,
                   createdSinceListing, allAlbums, locIdx, locationSearch,
                   allAssetIds, locationResults, locationIds, albumCalls,
                   catalogAtCreate, exitStatus, autoPc>>

\* JoinLocation as soon as one of the three fetches is done
JoinLocationEarly ==
    /\ UNCHANGED <<pairVars, fetchVars, createVars, cmdVars, stemVars, mainVars>>
    /\ autoPc = "search"
    /\ \E f \in Fields : fetchers[f].status = "done"
    /\ locationSearch' = findAssetsForLocation(fetchers, completionOrder)
    /\ autoPc' = "joined"
    /\ UNCHANGED <<albumName, locations, dryRun, searchesInFlight, catalogAlbums,
                   createdSinceListing, allAlbums, locIdx, fetchers,
                   completionOrder, allAssetIds, locationResults, locationIds,
                   albumCalls, catalogAtCreate, exitStatus>>

\* Promise.all resolves: findAssetsForLocation concatenates, deduplicates, returns
JoinLocation ==
    /\ UNCHANGED <<pairVars, fetchVars, createVars, cmdVars, stemVars, mainVars>>
    /\ autoPc = "search"
    /\ \A f \in Fields : fetchers[f].status = "done"
    /\ locationSearch' = findAssetsForLocation(fetchers, completionOrder)
    /\ autoPc' = "joined"
    /\ UNCHANGED <<albumName, locations, dryRun, searchesInFlight,
                   catalogAlbums,
                   createdSinceListing, allAlbums, locIdx, fetchers,
                   completionOrder, allAssetIds, locationResults, locationIds,
                   albumCalls, catalogAtCreate, exitStatus>>

\* The rest of the loop body: the new assets are added and counted, then the
\* loop goes on
AccumulateLocation ==
    /\ UNCHANGED <<pairVars, fetchVars, createVars, cmdVars, stemVars, mainVars>>
    /\ autoPc = "joined"
    /\ LET newAssets == NewAssets(locationSearch.assets, allAssetIds)
           ids == AddAll(allAssetIds, newAssets)
       IN  /\ allAssetIds' = ids
           /\ locationResults' = Append(locationResults,
                  [location |-> locations[locIdx], count |-> Len(newAssets)])
           /\ ContinueFrom(locIdx + 1, ids)
    /\ locationIds' = Append(locationIds,
          UNION { { fetchers[f].result[k] : k \in 1..Len(fetchers[f].result) } :
                    f \in Fields })
    /\ locationSearch' = NoSearch
    /\ UNCHANGED <<albumName, locations, dryRun, catalogAlbums,
                   createdSinceListing, allAlbums>>

\* createAlbum resolves: the album exists, autoAlbum returns 0
CreateAlbumSucceeds ==
    /\ UNCHANGED <<pairVars, fetchVars, createVars, cmdVars, stemVars, mainVars>>
    /\ autoPc = "creating"
    /\ catalogAlbums' = catalogAlbums \cup {albumName}
    /\ exitStatus' = 0
    /\ autoPc' = "done"
    /\ UNCHANGED <<albumName, locations, dryRun, searchesInFlight,
                   createdSinceListing, allAlbums,
                   locIdx, fetchers, completionOrder, locationSearch,
                   allAssetIds, locationResults, locationIds, albumCalls,
                   catalogAtCreate>>

\* createAlbum rejects: autoAlbum returns 1
CreateAlbumFails ==
    /\ UNCHANGED <<pairVars, fetchVars, createVars, cmdVars, stemVars, mainVars>>
    /\ autoPc = "creating"
    /\ exitStatus' = 1
    /\ autoPc' = "done"
    /\ UNCHANGED <<albumName, locations, dryRun, searchesInFlight,
                   catalogAlbums,
                   createdSinceListing, allAlbums, locIdx, fetchers,
                   completionOrder, locationSearch, allAssetIds,
                   locationResults, locationIds, albumCalls, catalogAtCreate>>

\* Another client of the catalog creates an album while autoAlbum runs
OtherClientCreatesAlbum(name) ==
    /\ UNCHANGED <<pairVars, fetchVars, createVars, cmdVars, stemVars, mainVars>>
    /\ autoPc \in {"precheck", "search", "joined", "creating"}
    /\ name \notin catalogAlbums
    /\ catalogAlbums' = catalogAlbums \cup {name}
    /\ createdSinceListing' =
          IF autoPc = "precheck" THEN createdSinceListing
          ELSE createdSinceListing \cup {name}
    /\ UNCHANGED <<albumName, locations, dryRun, searchesInFlight,
                   allAlbums, locIdx, fetchers,
                   completionOrder, locationSearch, allAssetIds,
                   locationResults, locationIds, albumCalls, catalogAtCreate,
                   exitStatus, autoPc>>

AlbumNext ==
    \/ ReceiveAlbums
    \/ \E f \in Fields :
          \E items \in PagesAfter(fetchers[f].result) : ReceiveFieldPage(f, items)
    \/ JoinLocation
    \/ AccumulateLocation
    \/ CreateAlbumSucceeds
    \/ CreateAlbumFails

AlbumRaceNext ==
    \/ AlbumNext
    \/ \E name \in AlbumNames : OtherClientCreatesAlbum(name)

\* ------------------------------------------------------- the stack command

\* options.after / options.before / options.albumId when the option is absent
NoOption == ""

\* The --after and --before values tried
DateStrings == {"2024-06-01", "invalid-date"}

\* !isNaN(new Date(dateStr).getTime())
IsValidDate(dateStr) == dateStr \in {"2024-06-01", "2024-06-15"}

\* new Date(dateStr).toISOString() of a valid date
ToISOString(dateStr) ==
    IF dateStr = "2024-06-01" THEN "2024-06-01T00:00:00.000Z"
    ELSE "2024-06-15T00:00:00.000Z"

\* parseDate of stack.ts: undefined for an absent option, the ISO string of a
\* valid date, and an "Invalid date format" error otherwise
parseDate(dateStr) ==
    IF dateStr = NoOption THEN [ok |-> TRUE, value |-> Undefined]
    ELSE IF IsValidDate(dateStr) THEN [ok |-> TRUE, value |-> ToISOString(dateStr)]
    ELSE [ok |-> FALSE, value |-> "Invalid date"]

\* A pattern source `new RegExp` rejects: an unterminated group
InvalidPattern == {"("}

InvalidStemPattern == [defined |-> TRUE, class |-> {"("}, emptyOk |-> FALSE]

\* compileRegex returns for this cover or raw source (it throws otherwise)
CompilesRegex(source) == "(" \notin source

\* options.stemPattern ? compileRegex(options.stemPattern) : undefined  returns
CompilesStemRegex(source) == ~source.defined \/ "(" \notin source.class

\* The catalogs the stack command is run against: two covers of one stem and
\* a raw; a cover and two raws of its stem; a pair and a raw of another stem
StackCatalogs ==
    { [id \in AssetIds |->
          IF id = "1" THEN <<"a", ".", "j">>
          ELSE IF id = "2" THEN <<"a", ".", "j">> ELSE <<"a", ".", "d">>],
      [id \in AssetIds |->
          IF id = "1" THEN <<"a", ".", "j">> ELSE <<"a", ".", "d">>],
      [id \in AssetIds |->
          IF id = "1" THEN <<"a", ".", "j">>
          ELSE IF id = "2" THEN <<"a", ".", "d">> ELSE <<"b", ".", "d">>] }

\* The lists a search or an album of the catalog holds: each asset at most once
AssetLists ==
    { l \in UNION { [1..n -> AssetIds] : n \in 0..Cardinality(AssetIds) } :
        \A i, j \in 1..Len(l) : i # j => l[i] # l[j] }

\* The lists a search returns when its pages may repeat an asset
RepeatingAssetLists ==
    UNION { [1..n -> AssetIds] : n \in 0..Cardinality(AssetIds) }

StackOptionSets ==
    [ coverPattern : {{"j"}, InvalidPattern},
      rawPattern   : {{"d"}, InvalidPattern},
      stemPattern  : {NoStemPattern,
                      [defined |-> TRUE, class |-> {"a"}, emptyOk |-> FALSE],
                      InvalidStemPattern},
      dryRun       : BOOLEAN,
      after        : {NoOption} \cup DateStrings,
      before       : {NoOption} \cup DateStrings,
      albumId      : {NoOption, "album-1"} ]

\* The option sets whose patterns compile
CompilingOptionSets ==
    [ coverPattern : {{"j"}},
      rawPattern   : {{"d"}},
      stemPattern  : {NoStemPattern,
                      [defined |-> TRUE, class |-> {"a"}, emptyOk |-> FALSE]},
      dryRun       : BOOLEAN,
      after        : {NoOption} \cup DateStrings,
      before       : {NoOption},
      albumId      : {NoOption, "album-1"} ]

\* The exit status of the process when an error leaves the handler: main
\* returns 1 for a configuration error and rethrows any other error
ExitOnError == 1

\* StackStatus reporting success as soon as one stack was created
StackStatusAnyCreated(stacksCreated, pairCount) ==
    IF stacksCreated > 0 THEN 0 ELSE 1

\* return result.stacksCreated === result.pairs.length ? 0 : 1
StackStatus(stacksCreated, pairCount) ==
    IF stacksCreated = pairCount THEN 0 ELSE 1

\* The state of the commands while a part of the program runs on its own,
\* after so many getAllAlbums calls
CommandsAt(listings) ==
    /\ stackOptions = [coverPattern |-> {}, rawPattern |-> {},
                       stemPattern |-> NoStemPattern, dryRun |-> FALSE,
                       after |-> NoOption, before |-> NoOption,
                       albumId |-> NoOption]
    /\ albumHasAssetList = TRUE
    /\ fetched = <<>>
    /\ albumInfoCalls = 0
    /\ stackExit = -1
    /\ stackPc = "idle"
    /\ albumDates = [after |-> "2024-06-01", before |-> "2024-06-15"]
    /\ listingCalls = listings
    /\ thrown = "none"

CommandsIdle == CommandsAt(0)

\* The state of getFileStem while another part of the program runs
StemIdle ==
    /\ stemFileName = <<>>
    /\ stemArg = NoStemPattern
    /\ stemResult = <<>>
    /\ stemWarned = {}
    /\ stemPc = "idle"

\* The program when main calls the stack handler
StackInitFrom(optionSets, lists, stackedSets, assetListFlags) ==
    /\ stackOptions \in optionSets
    /\ albumHasAssetList \in
          IF stackOptions.albumId = NoOption THEN {TRUE} ELSE assetListFlags
    /\ fetched = <<>>
    /\ albumInfoCalls = 0
    /\ stackExit = -1
    /\ stackPc = "start"
    /\ albumDates = [after |-> "2024-06-01", before |-> "2024-06-15"]
    /\ listingCalls = 0
    /\ thrown = "none"
    /\ catalog \in StackCatalogs
    /\ stacked \in stackedSets
    /\ assets = <<>>
    /\ coverPattern = {}
    /\ rawPattern = {}
    /\ lastIndex = NewLastIndex
    /\ firstRun = NoRun
    /\ stemPattern = NoStemPattern
    /\ stemToAssets = <<>>
    /\ assetDetails = [id \in {} |-> [fileName |-> <<>>]]
    /\ stemPatternMismatches = {}
    /\ replacedCovers = <<>>
    /\ pairs = <<>>
    /\ skippedNoMatch = 0
    /\ groupIdx = 1
    /\ pairsPc = "idle"
    /\ matching \in lists
    /\ fetchField = "none"
    /\ page = 1
    /\ result = <<>>
    /\ hasMore = TRUE
    /\ requested = <<>>
    /\ returned = <<>>
    /\ inFlight = 0
    /\ fetchPc = "idle"

\* The stack handler called with every option set, on a catalog without stacks
StackInit == StackInitFrom(StackOptionSets, AssetLists, {{}}, {TRUE})

\* The stack handler called with patterns that compile, on catalogs with
\* stacked assets, albums without an asset list and searches that repeat assets
StackRepeatsInit ==
    StackInitFrom(CompilingOptionSets, RepeatingAssetLists, StackedSets, BOOLEAN)

\* An error leaves stack(): the handler's promise rejects
StackThrows(error) ==
    /\ thrown' = error
    /\ stackExit' = ExitOnError
    /\ stackPc' = "done"

\* StackStart taking the search branch whether or not an album id is given
StackStartIgnoresAlbum ==
    /\ UNCHANGED <<pairVars, createVars, albumVars, stemVars, mainVars>>
    /\ stackPc = "start"
    /\ IF ~(/\ CompilesRegex(stackOptions.coverPattern)
            /\ CompilesRegex(stackOptions.rawPattern)
            /\ CompilesStemRegex(stackOptions.stemPattern))
       THEN /\ StackThrows("Invalid regex")
            /\ UNCHANGED <<fetchVars, albumInfoCalls>>
       ELSE IF FALSE
       THEN /\ albumInfoCalls' = albumInfoCalls + 1
            /\ stackPc' = "albumInfo"
            /\ UNCHANGED <<fetchVars, stackExit, thrown>>
       ELSE IF ~(parseDate(stackOptions.after).ok /\ parseDate(stackOptions.before).ok)
       THEN /\ StackThrows("Invalid date")
            /\ UNCHANGED <<fetchVars, albumInfoCalls>>
       ELSE /\ fetchPc' = "loop"
            /\ stackPc' = "fetch"
            /\ UNCHANGED <<matching, fetchField, page, result, hasMore, requested,
                           returned, inFlight, albumInfoCalls, stackExit, thrown>>
    /\ UNCHANGED <<stackOptions, albumHasAssetList, fetched, albumDates, listingCalls>>

\* stack() from its first line to its first await: the patterns are compiled,
\* then either getAlbumInfo is called or the dates are parsed and fetchAssets
\* is called
StackStart ==
    /\ UNCHANGED <<pairVars, createVars, albumVars, stemVars, mainVars>>
    /\ stackPc = "start"
    /\ IF ~(/\ CompilesRegex(stackOptions.coverPattern)
            /\ CompilesRegex(stackOptions.rawPattern)
            /\ CompilesStemRegex(stackOptions.stemPattern))
       THEN /\ StackThrows("Invalid regex")
            /\ UNCHANGED <<fetchVars, albumInfoCalls>>
       ELSE IF stackOptions.albumId # NoOption
       THEN /\ albumInfoCalls' = albumInfoCalls + 1
            /\ stackPc' = "albumInfo"
            /\ UNCHANGED <<fetchVars, stackExit, thrown>>
       ELSE IF ~(parseDate(stackOptions.after).ok /\ parseDate(stackOptions.before).ok)
       THEN /\ StackThrows("Invalid date")
            /\ UNCHANGED <<fetchVars, albumInfoCalls>>
       ELSE /\ fetchPc' = "loop"
            /\ stackPc' = "fetch"
            /\ UNCHANGED <<matching, fetchField, page, result, hasMore, requested,
                           returned, inFlight, albumInfoCalls, stackExit, thrown>>
    /\ UNCHANGED <<stackOptions, albumHasAssetList, fetched, albumDates, listingCalls>>

\* stack() once the asset list is there: no asset ends the command with 0,
\* otherwise findMatchingPairs is called with the compiled patterns
AfterFetch(list) ==
    /\ fetched' = list
    /\ IF Len(list) = 0
       THEN /\ stackExit' = 0
            /\ stackPc' = "done"
            /\ UNCHANGED pairVars
       ELSE /\ coverPattern' = stackOptions.coverPattern
            /\ rawPattern' = stackOptions.rawPattern
            /\ lastIndex' = NewLastIndex
            /\ stemPattern' = stackOptions.stemPattern
            /\ pairsPc' = "classify"
            /\ stackPc' = "pairs"
            /\ UNCHANGED <<catalog, stacked, firstRun, assets, stemToAssets,
                           assetDetails,
                           stemPatternMismatches, replacedCovers, pairs,
                           skippedNoMatch, groupIdx, stackExit>>
    /\ UNCHANGED <<stackOptions, albumHasAssetList, albumInfoCalls, albumDates, listingCalls, thrown>>

\* The AlbumResponseDto getAlbumInfo answers with: `assets` holds the album's
\* assets, or is absent
AlbumResponse ==
    [assets |-> IF albumHasAssetList THEN [defined |-> TRUE, items |-> matching]
                ELSE [defined |-> FALSE, items |-> <<>>]]

\* (album.assets ?? []).map(a => ({id, originalFileName})): the assets by id
fetchAlbumAssets(album) ==
    IF album.assets.defined THEN album.assets.items ELSE <<>>

\* getAlbumInfo answers: fetchAlbumAssets maps album.assets
StackReceiveAlbum ==
    /\ UNCHANGED <<fetchVars, createVars, albumVars, stemVars, mainVars>>
    /\ stackPc = "albumInfo"
    /\ AfterFetch(fetchAlbumAssets(AlbumResponse))

\* getAlbumInfo rejects
StackAlbumInfoFails ==
    /\ UNCHANGED <<pairVars, fetchVars, createVars, albumVars, stemVars, mainVars>>
    /\ stackPc = "albumInfo"
    /\ StackThrows("request failed")
    /\ UNCHANGED <<stackOptions, albumHasAssetList, fetched, albumInfoCalls, albumDates, listingCalls>>

\* StackFetchReturns handing on the pages received so far while a page
\* request is still unanswered
StackFetchReturnsEarly ==
    /\ UNCHANGED <<fetchVars, createVars, albumVars, stemVars, mainVars>>
    /\ stackPc = "fetch"
    /\ fetchPc \in {"done", "await"}
    /\ AfterFetch(result)

\* fetchAssets returns its result
StackFetchReturns ==
    /\ UNCHANGED <<fetchVars, createVars, albumVars, stemVars, mainVars>>
    /\ stackPc = "fetch"
    /\ fetchPc = "done"
    /\ AfterFetch(result)

\* StackFetchFails going on with the pages received before the failure
StackFetchFailsKeepsPages ==
    /\ UNCHANGED <<fetchVars, createVars, albumVars, stemVars, mainVars>>
    /\ stackPc = "fetch"
    /\ fetchPc = "failed"
    /\ AfterFetch(result)

\* fetchAssets rejects with the error of its failed page request
StackFetchFails ==
    /\ UNCHANGED <<pairVars, fetchVars, createVars, albumVars, stemVars, mainVars>>
    /\ stackPc = "fetch"
    /\ fetchPc = "failed"
    /\ StackThrows("request failed")
    /\ UNCHANGED <<stackOptions, albumHasAssetList, fetched, albumInfoCalls, albumDates, listingCalls>>

\* `for (const asset of assets)` of findMatchingPairs on the fetched list
StackClassifyAsset ==
    /\ stackPc = "pairs"
    /\ Len(assets) < Len(fetched)
    /\ ClassifyAsset(AssetData(catalog, fetched[Len(assets) + 1]))

StackEndOfAssets ==
    /\ stackPc = "pairs"
    /\ Len(assets) = Len(fetched)
    /\ EndOfAssets

StackFinalizeGroup == stackPc = "pairs" /\ FinalizeGroup

StackReturnPairs == stackPc = "pairs" /\ ReturnPairs

\* StackAfterPairs without the dry-run return
StackAfterPairsIgnoresDryRun ==
    /\ UNCHANGED <<pairVars, fetchVars, albumVars, stemVars, mainVars>>
    /\ stackPc = "pairs"
    /\ pairsPc = "done"
    /\ IF Len(pairs) = 0
       THEN /\ stackExit' = 0
            /\ stackPc' = "done"
            /\ UNCHANGED createVars
       ELSE /\ createPc' = "loop"
            /\ stackPc' = "create"
            /\ UNCHANGED <<pairIdx, created, stackCalls, stackOutcomes,
                           stacksInFlight, stackExit>>
    /\ UNCHANGED <<stackOptions, albumHasAssetList, fetched, albumInfoCalls, albumDates,
                   listingCalls, thrown>>

\* findMatchingPairs has returned: no pair and the dry run end the command
\* with 0, otherwise createStacks is called
StackAfterPairs ==
    /\ UNCHANGED <<pairVars, fetchVars, albumVars, stemVars, mainVars>>
    /\ stackPc = "pairs"
    /\ pairsPc = "done"
    /\ IF Len(pairs) = 0 \/ stackOptions.dryRun
       THEN /\ stackExit' = 0
            /\ stackPc' = "done"
            /\ UNCHANGED createVars
       ELSE /\ createPc' = "loop"
            /\ stackPc' = "create"
            /\ UNCHANGED <<pairIdx, created, stackCalls, stackOutcomes,
                           stacksInFlight, stackExit>>
    /\ UNCHANGED <<stackOptions, albumHasAssetList, fetched, albumInfoCalls, albumDates,
                   listingCalls, thrown>>

\* createStacks has returned: the summary is printed, the status returned
StackReturns ==
    /\ UNCHANGED <<pairVars, fetchVars, createVars, albumVars, stemVars, mainVars>>
    /\ stackPc = "create"
    /\ createPc = "done"
    /\ stackExit' = StackStatus(created, Len(pairs))
    /\ stackPc' = "done"
    /\ UNCHANGED <<stackOptions, albumHasAssetList, fetched, albumInfoCalls, albumDates,
                   listingCalls, thrown>>

StackNext ==
    \/ StackStart
    \/ StackReceiveAlbum
    \/ StackAlbumInfoFails
    \/ SendSearch
    \/ ReceivePage
    \/ SearchFails
    \/ ReturnResult
    \/ StackFetchReturns
    \/ StackFetchFails
    \/ StackClassifyAsset
    \/ StackEndOfAssets
    \/ StackFinalizeGroup
    \/ StackReturnPairs
    \/ StackAfterPairs
    \/ SendCreateStack
    \/ CreateStackSucceeds
    \/ CreateStackFails
    \/ ReturnCreated
    \/ StackReturns

\* -------------------------------------------------- the auto-album command

\* parseDate of auto-album: the option is required, so there is no undefined
parseDateRequired(dateStr) ==
    IF IsValidDate(dateStr) THEN [ok |-> TRUE, value |-> ToISOString(dateStr)]
    ELSE [ok |-> FALSE, value |-> "Invalid date"]

\* The program when main calls the auto-album handler
AutoAlbumInit ==
    /\ albumName = "Trip"
    /\ locations \in LocationLists
    /\ dryRun \in BOOLEAN
    /\ searchesInFlight = [k \in 1..Len(locations) |-> 0]
    /\ catalogAlbums \in SUBSET AlbumNames
    /\ createdSinceListing = {}
    /\ allAlbums = {}
    /\ locIdx = 1
    /\ fetchers = [f \in Fields |-> IdleFetcher]
    /\ completionOrder = <<>>
    /\ locationSearch = NoSearch
    /\ allAssetIds = <<>>
    /\ locationResults = <<>>
    /\ locationIds = <<>>
    /\ albumCalls = <<>>
    /\ catalogAtCreate = <<>>
    /\ exitStatus = -1
    /\ autoPc = "start"
    /\ stackOptions = [coverPattern |-> {}, rawPattern |-> {},
                       stemPattern |-> NoStemPattern, dryRun |-> FALSE,
                       after |-> NoOption, before |-> NoOption,
                       albumId |-> NoOption]
    /\ albumHasAssetList = TRUE
    /\ fetched = <<>>
    /\ albumInfoCalls = 0
    /\ stackExit = -1
    /\ stackPc = "idle"
    /\ albumDates \in [after : DateStrings, before : DateStrings]
    /\ listingCalls = 0
    /\ thrown = "none"

\* AutoAlbumStart going on without the getAllAlbums call
AutoAlbumStartNoListing ==
    /\ UNCHANGED <<pairVars, fetchVars, createVars, stemVars, mainVars>>
    /\ autoPc = "start"
    /\ IF parseDateRequired(albumDates.after).ok /\ parseDateRequired(albumDates.before).ok
       THEN /\ listingCalls' = listingCalls
            /\ autoPc' = "precheck"
            /\ UNCHANGED <<exitStatus, thrown>>
       ELSE /\ thrown' = "Invalid date"
            /\ exitStatus' = ExitOnError
            /\ autoPc' = "failed"
            /\ UNCHANGED listingCalls
    /\ UNCHANGED <<albumName, locations, dryRun, searchesInFlight,
                   catalogAlbums,
                   createdSinceListing, allAlbums, locIdx, fetchers,
                   completionOrder, locationSearch, allAssetIds,
                   locationResults, locationIds, albumCalls, catalogAtCreate>>
    /\ UNCHANGED <<stackOptions, albumHasAssetList, fetched, albumInfoCalls, stackExit, stackPc,
                   albumDates>>

\* autoAlbum from its first line to its first await: the dates are parsed,
\* the options are printed, getAllAlbums is called
AutoAlbumStart ==
    /\ UNCHANGED <<pairVars, fetchVars, createVars, stemVars, mainVars>>
    /\ autoPc = "start"
    /\ IF parseDateRequired(albumDates.after).ok /\ parseDateRequired(albumDates.before).ok
       THEN /\ listingCalls' = listingCalls + 1
            /\ autoPc' = "precheck"
            /\ UNCHANGED <<exitStatus, thrown>>
       ELSE /\ thrown' = "Invalid date"
            /\ exitStatus' = ExitOnError
            /\ autoPc' = "failed"
            /\ UNCHANGED listingCalls
    /\ UNCHANGED <<albumName, locations, dryRun, searchesInFlight,
                   catalogAlbums,
                   createdSinceListing, allAlbums, locIdx, fetchers,
                   completionOrder, locationSearch, allAssetIds,
                   locationResults, locationIds, albumCalls, catalogAtCreate>>
    /\ UNCHANGED <<stackOptions, albumHasAssetList, fetched, albumInfoCalls, stackExit, stackPc,
                   albumDates>>

\* getAllAlbums rejects: the error leaves autoAlbum
AlbumListingFails ==
    /\ UNCHANGED <<pairVars, fetchVars, createVars, stemVars, mainVars>>
    /\ autoPc = "precheck"
    /\ thrown' = "request failed"
    /\ exitStatus' = ExitOnError
    /\ autoPc' = "failed"
    /\ UNCHANGED <<albumName, locations, dryRun, searchesInFlight,
                   catalogAlbums,
                   createdSinceListing, allAlbums, locIdx, fetchers,
                   completionOrder, locationSearch, allAssetIds,
                   locationResults, locationIds, albumCalls, catalogAtCreate>>
    /\ UNCHANGED <<stackOptions, albumHasAssetList, fetched, albumInfoCalls, stackExit, stackPc,
                   albumDates, listingCalls>>

\* FieldSearchFails with the rejection swallowed: the command goes on
FieldSearchFailsSwallowed(field) ==
    /\ UNCHANGED <<pairVars, fetchVars, createVars, stemVars, cmdVars, mainVars>>
    /\ autoPc = "search"
    /\ fetchers[field].status = "await"
    /\ fetchers' = [fetchers EXCEPT ![field].status = "failed"]
    /\ searchesInFlight' = [searchesInFlight EXCEPT ![locIdx] = @ - 1]
    /\ UNCHANGED <<albumName, locations, dryRun, catalogAlbums,
                   createdSinceListing, allAlbums, locIdx, completionOrder,
                   locationSearch, allAssetIds, locationResults, locationIds,
                   albumCalls, catalogAtCreate, exitStatus, autoPc>>

\* A searchAssets call of one field rejects: searchAssetsByField rejects,
\* Promise.all rejects with it, and the error leaves findAssetsForLocation and
\* autoAlbum, whatever the other two fetches have done
FieldSearchFails(field) ==
    /\ UNCHANGED <<pairVars, fetchVars, createVars, stemVars, mainVars>>
    /\ autoPc = "search"
    /\ fetchers[field].status = "await"
    /\ fetchers' = [fetchers EXCEPT ![field].status = "failed"]
    /\ thrown' = "request failed"
    /\ exitStatus' = ExitOnError
    /\ searchesInFlight' = [searchesInFlight EXCEPT ![locIdx] = @ - 1]
    /\ autoPc' = "failed"
    /\ UNCHANGED <<albumName, locations, dryRun, catalogAlbums,
                   createdSinceListing, allAlbums, locIdx, completionOrder,
                   locationSearch, allAssetIds, locationResults, locationIds,
                   albumCalls, catalogAtCreate>>
    /\ UNCHANGED <<stackOptions, albumHasAssetList, fetched, albumInfoCalls, stackExit, stackPc,
                   albumDates, listingCalls>>

AutoAlbumNext ==
    \/ AutoAlbumStart
    \/ AlbumListingFails
    \/ \E f \in Fields : FieldSearchFails(f)
    \/ AlbumNext

\* Either command, as main dispatches it
CommandNext ==
    \/ StackNext
    \/ AutoAlbumNext

\* The exit number of a function that has not returned
NoExit == -1

\* --------------------------------------------------------------- getConfig

\* An optional string: undefined, or a string that may be empty
AbsentString == [kind |-> "undefined", items |-> <<>>]
GivenString(text) == [kind |-> "string", items |-> <<text>>]

\* The values of --baseurl, --apikey, IMMICH_URL and IMMICH_API_KEY
ConfigStrings == { AbsentString, GivenString(""), GivenString("cli"), GivenString("env") }

\* left || right
LogicalOr(left, right) ==
    IF left = AbsentString \/ left = GivenString("") THEN right ELSE left

\* left ?? right
NullishCoalesce(left, right) ==
    IF left.kind = "undefined" \/ left.kind = "null" THEN right ELSE left

\* !value of an optional string
IsFalsy(value) == value.kind = "undefined" \/ value = GivenString("")

NoConfig ==
    [threw |-> FALSE, missing |-> <<>>, url |-> AbsentString, apiKey |-> AbsentString]

\* getConfig: the Config it returns, or the names in the ConfigError it throws
getConfig(cli, environment) ==
    LET url == NullishCoalesce(cli.baseurl, environment.IMMICH_URL)
        apiKey == NullishCoalesce(cli.apikey, environment.IMMICH_API_KEY)
        missing ==
            (IF IsFalsy(url) THEN <<"IMMICH_URL (or --baseurl)">> ELSE <<>>)
            \o (IF IsFalsy(apiKey) THEN <<"IMMICH_API_KEY (or --apikey)">> ELSE <<>>)
    IN  IF Len(missing) > 0
        THEN [threw |-> TRUE, missing |-> missing,
              url |-> AbsentString, apiKey |-> AbsentString]
        ELSE [threw |-> FALSE, missing |-> <<>>, url |-> url, apiKey |-> apiKey]

\* The state of getConfig while another part of the program runs
ConfigIdle ==
    /\ overrides = [baseurl |-> AbsentString, apikey |-> AbsentString]
    /\ env = [IMMICH_URL |-> AbsentString, IMMICH_API_KEY |-> AbsentString]
    /\ configResult = NoConfig
    /\ configPc = "idle"

\* getConfig on every pair of overrides and every environment of the model
ConfigInit ==
    /\ overrides \in [baseurl : ConfigStrings, apikey : ConfigStrings]
    /\ env \in [IMMICH_URL : ConfigStrings, IMMICH_API_KEY : ConfigStrings]
    /\ configResult = NoConfig
    /\ configPc = "call"

\* A call of getConfig
CallGetConfig ==
    /\ configPc = "call"
    /\ configResult' = getConfig(overrides, env)
    /\ configPc' = IF configResult'.threw THEN "threw" ELSE "returned"
    /\ UNCHANGED <<overrides, env>>
    /\ UNCHANGED <<parsed, configOk, validateArgs, validation, handlerCalls, mainExit, mainPc>>
    /\ UNCHANGED <<pairVars, fetchVars, createVars, albumVars, cmdVars, stemVars, validateVars>>

ConfigNext == CallGetConfig

\* ---------------------------------------------------------------- validate

\* The ValidationResult of a validate that has checked nothing
NoChecks ==
    [success |-> TRUE, urlValid |-> FALSE, serverReachable |-> FALSE,
     authenticated |-> FALSE, error |-> ""]

\* The state of validate while another part of the program runs
ValidateIdle ==
    /\ validateConfig = [url |-> "", apiKey |-> ""]
    /\ validateResult = NoChecks
    /\ validateCalls = <<>>
    /\ validateAnswers = <<>>
    /\ validateExit = NoExit
    /\ validatePc = "idle"

\* The URLs validate is called with
UrlStrings ==
    { "https://immich.example.com", "http://localhost:2283",
      "HTTPS://IMMICH.EXAMPLE.COM", "ftp://immich.example.com",
      "mailto:admin@example.com", "localhost:2283",
      "immich.example.com", "not a url",
      "http://192.168.1.10:2283/api", "//immich.example.com" }

\* new URL(url).protocol, or "" when new URL(url) throws: the scheme is
\* the text before the first colon, in lower case, and a string without a
\* scheme is no URL
UrlProtocol(url) ==
    IF url \in {"https://immich.example.com", "HTTPS://IMMICH.EXAMPLE.COM"} THEN "https:"
    ELSE IF url \in {"http://localhost:2283", "http://192.168.1.10:2283/api"} THEN "http:"
    ELSE IF url = "ftp://immich.example.com" THEN "ftp:"
    ELSE IF url = "mailto:admin@example.com" THEN "mailto:"
    ELSE IF url = "localhost:2283" THEN "localhost:"
    ELSE ""

\* An isValidUrl that takes every string new URL parses
IsValidUrlAnyScheme(url) == UrlProtocol(url) # ""

isValidUrl(url) ==
    IF UrlProtocol(url) = ""
    THEN FALSE
    ELSE UrlProtocol(url) = "http:" \/ UrlProtocol(url) = "https:"

\* What a request throws: an HTTP error of the SDK with its status and the
\* message of its body, an Error with its name and message, or another value
HttpError(status, message) ==
    [type |-> "http", status |-> status, name |-> "", message |-> message]
ErrorNamed(name, message) ==
    [type |-> "error", status |-> 0, name |-> name, message |-> message]
OtherThrown == [type |-> "other", status |-> 0, name |-> "", message |-> ""]

\* The errors of the model; an HTTP error with message "" has no data.message
RequestErrors ==
    { HttpError(401, "Unauthorized"), HttpError(403, "Forbidden"),
      HttpError(500, "Internal"), HttpError(502, ""),
      ErrorNamed("TypeError", "fetch failed"), ErrorNamed("TypeError", "x is null"),
      ErrorNamed("TimeoutError", "timed out"), ErrorNamed("AbortError", "aborted"),
      ErrorNamed("Error", "boom"), OtherThrown }

formatError(err) ==
    IF err.type = "http"
    THEN IF err.status = 401 THEN "Invalid API key"
         ELSE IF err.status = 403 THEN "API key does not have permission"
         ELSE "API error: " \o (IF err.message = "" THEN "Unknown error" ELSE err.message)
    ELSE IF err.type = "error"
    THEN IF err.name = "TypeError" /\ err.message = "fetch failed"
         THEN "Network error: " \o err.message
         ELSE IF err.name = "TimeoutError" \/ err.name = "AbortError"
         THEN "Request timed out"
         ELSE err.message
    ELSE "Unknown error"

\* The answers to pingServer: {res: "pong"}, another res, or an error
Answered(res) == [threw |-> FALSE, res |-> res, err |-> OtherThrown]
Rejected(err) == [threw |-> TRUE, res |-> "", err |-> err]

PingAnswers == { Answered("pong"), Answered("PONG") } \cup { Rejected(e) : e \in RequestErrors }

\* The answers to getMyUser: a user, or an error
UserAnswers == { Answered("user") } \cup { Rejected(e) : e \in RequestErrors }

\* validate called with every URL of the model
ValidateInit ==
    /\ validateConfig \in [url : UrlStrings, apiKey : {"key"}]
    /\ validateResult = NoChecks
    /\ validateCalls = <<>>
    /\ validateAnswers = <<>>
    /\ validateExit = NoExit
    /\ validatePc = "start"

\* The end of validate: 0 if result.success, 1 otherwise
ValidateReturns(checks) ==
    /\ validateExit' = IF checks.success THEN 0 ELSE 1
    /\ validatePc' = "returned"

ValidateFrame ==
    /\ UNCHANGED <<parsed, configOk, validateArgs, validation, handlerCalls, mainExit, mainPc>>
    /\ UNCHANGED <<pairVars, fetchVars, createVars, albumVars, cmdVars, stemVars, configVars>>

\* validate up to its first await: the URL check, then the ping request
ValidateStart ==
    /\ validatePc = "start"
    /\ IF isValidUrl(validateConfig.url)
       THEN /\ validateResult' = [validateResult EXCEPT !.urlValid = TRUE]
            /\ validateCalls' = Append(validateCalls, "pingServer")
            /\ validatePc' = "ping"
            /\ UNCHANGED validateExit
       ELSE /\ validateResult' = [validateResult EXCEPT !.success = FALSE]
            /\ ValidateReturns(validateResult')
            /\ UNCHANGED validateCalls
    /\ UNCHANGED <<validateConfig, validateAnswers>>
    /\ ValidateFrame

\* A PingAnswered that goes on to the user request whatever the answer is
PingAnsweredUngated(answer) ==
    /\ validatePc = "ping"
    /\ validateAnswers' = Append(validateAnswers, answer)
    /\ validateResult' =
          IF ~answer.threw /\ answer.res = "pong"
          THEN [validateResult EXCEPT !.serverReachable = TRUE]
          ELSE [validateResult EXCEPT !.success = FALSE]
    /\ validateCalls' = Append(validateCalls, "getMyUser")
    /\ validatePc' = "user"
    /\ UNCHANGED <<validateConfig, validateExit>>
    /\ ValidateFrame

\* pingServer settles: on "pong" the user request is issued, on another
\* answer or an error validate returns
PingAnswered(answer) ==
    /\ validatePc = "ping"
    /\ validateAnswers' = Append(validateAnswers, answer)
    /\ IF ~answer.threw /\ answer.res = "pong"
       THEN /\ validateResult' = [validateResult EXCEPT !.serverReachable = TRUE]
            /\ validateCalls' = Append(validateCalls, "getMyUser")
            /\ validatePc' = "user"
            /\ UNCHANGED validateExit
       ELSE /\ validateResult' =
                  [validateResult EXCEPT
                      !.success = FALSE,
                      !.error = IF answer.threw THEN formatError(answer.err)
                                ELSE "Unexpected response from server"]
            /\ ValidateReturns(validateResult')
            /\ UNCHANGED validateCalls
    /\ UNCHANGED validateConfig
    /\ ValidateFrame

\* getMyUser settles and validate returns
UserAnswered(answer) ==
    /\ validatePc = "user"
    /\ validateAnswers' = Append(validateAnswers, answer)
    /\ validateResult' =
          IF ~answer.threw
          THEN [validateResult EXCEPT !.authenticated = TRUE]
          ELSE [validateResult EXCEPT !.success = FALSE,
                                      !.error = formatError(answer.err)]
    /\ ValidateReturns(validateResult')
    /\ UNCHANGED <<validateConfig, validateCalls>>
    /\ ValidateFrame

ValidateNext ==
    \/ ValidateStart
    \/ \E answer \in PingAnswers : PingAnswered(answer)
    \/ \E answer \in UserAnswers : UserAnswered(answer)

\* ------------------------------------------------------------ main: steps

\* The values of an option in the record handed to validateRequiredOptions:
\* undefined when the option was not given, null, a string, or a list of
\* strings (kind says which, items holds the string or the list's elements).
UndefinedValue == [kind |-> "undefined", items |-> <<>>]
NullValue == [kind |-> "null", items |-> <<>>]
StringValue(text) == [kind |-> "string", items |-> <<text>>]
ArrayValue(items) == [kind |-> "array", items |-> items]

\* The commands of the registry, in the order of their registration
RegisteredCommands == <<"validate", "stack", "auto-album">>

\* registry.get(commandName) finds a command
IsRegistered(commandName) ==
    \E k \in 1..Len(RegisteredCommands) : RegisteredCommands[k] = commandName

Option(name, required, multiple) ==
    [name |-> name, required |-> required, multiple |-> multiple]

\* command.options of a registered command
CommandOptions(commandName) ==
    IF commandName = "stack"
    THEN << Option("cover", TRUE, FALSE), Option("raw", TRUE, FALSE),
            Option("stem-pattern", FALSE, FALSE), Option("dry-run", FALSE, FALSE),
            Option("after", FALSE, FALSE), Option("before", FALSE, FALSE),
            Option("album", FALSE, FALSE), Option("verbose", FALSE, FALSE) >>
    ELSE IF commandName = "auto-album"
    THEN << Option("name", TRUE, FALSE), Option("after", TRUE, FALSE),
            Option("before", TRUE, FALSE), Option("location", TRUE, TRUE),
            Option("dry-run", FALSE, FALSE), Option("verbose", FALSE, FALSE) >>
    ELSE <<>>

\* The options whose values the model draws
OptionNames == {"cover", "raw", "name", "after", "before", "location"}

\* values[opt.name]
ValueOf(values, name) ==
    IF name \in DOMAIN values THEN values[name] ELSE UndefinedValue

\* A validateRequiredOptions that takes only undefined for missing
IsMissingUndefinedOnly(opt, value) ==
    value.kind = "undefined"

\* The test validateRequiredOptions makes on the value of a required option
IsMissing(opt, value) ==
    IF value.kind = "undefined" \/ value.kind = "null"
    THEN TRUE
    ELSE opt.multiple /\ value.kind = "array" /\ Len(value.items) = 0

RECURSIVE MissingFrom(_, _, _)
\* The loop of validateRequiredOptions from option k on
MissingFrom(options, values, k) ==
    IF k > Len(options)
    THEN <<>>
    ELSE LET opt == options[k]
             rest == MissingFrom(options, values, k + 1)
         IN  IF opt.required /\ IsMissing(opt, ValueOf(values, opt.name))
             THEN <<opt.name>> \o rest
             ELSE rest

\* validateRequiredOptions: it throws on a command the registry lacks
validateRequiredOptions(commandName, values) ==
    IF ~IsRegistered(commandName)
    THEN [valid |-> FALSE, missing |-> <<>>, threw |-> TRUE]
    ELSE LET missing == MissingFrom(CommandOptions(commandName), values, 1)
         IN  [valid |-> Len(missing) = 0, missing |-> missing, threw |-> FALSE]

NoValidation == [valid |-> FALSE, missing |-> <<>>, threw |-> FALSE]

NoValues == [name \in OptionNames |-> UndefinedValue]

\* The positionals of the command lines of the model
PositionalLists == { <<>>, <<"validate">>, <<"stack">>, <<"auto-album">>, <<"bogus">> }

\* What parseArgs gives for an option of type string: undefined or the
\* string, and for a repeatable one undefined or the list of its occurrences.
ParsedValueSets ==
    { v \in [OptionNames -> {UndefinedValue, StringValue("x"), ArrayValue(<<"Rome">>)}] :
        /\ v["location"].kind # "string"
        /\ \A name \in OptionNames \ {"location"} : v[name].kind # "array" }

\* The records a caller of the registry may hand to validateRequiredOptions
AnyValueSets ==
    { v \in [OptionNames -> {UndefinedValue, NullValue, StringValue("x"),
                             ArrayValue(<<>>), ArrayValue(<<"Rome">>)}] :
        /\ v["after"].kind \in {"undefined", "string"}
        /\ v["before"] = v["after"]
        /\ v["name"] # ArrayValue(<<"Rome">>)
        /\ v["raw"] # ArrayValue(<<"Rome">>)
        /\ v["cover"] # ArrayValue(<<"Rome">>) }

NoCall == [commandName |-> "", values |-> NoValues]

\* What parseArgs leaves when it throws: args is never assigned
ParseFailed == [ok |-> FALSE, help |-> FALSE, positionals |-> <<>>, values |-> NoValues]

\* The ways the handler of a command settles: it returns a number, or it
\* throws an error whose message holds "Invalid date" or "Invalid regex",
\* or another error.
HandlerOutcomes ==
    { [threw |-> FALSE, code |-> 0, message |-> ""],
      [threw |-> FALSE, code |-> 1, message |-> ""],
      [threw |-> TRUE, code |-> 0, message |-> "Invalid date"],
      [threw |-> TRUE, code |-> 0, message |-> "Invalid regex"],
      [threw |-> TRUE, code |-> 0, message |-> "fetch failed"] }

\* The state of main while another part of the program runs
MainIdle ==
    /\ parsed = ParseFailed
    /\ configOk = TRUE
    /\ validateArgs = NoCall
    /\ validation = NoValidation
    /\ handlerCalls = <<>>
    /\ mainExit = NoExit
    /\ mainPc = "idle"
    /\ ConfigIdle
    /\ ValidateIdle

\* main on a command line, or validateRequiredOptions called on the registry
MainInit ==
    /\ validation = NoValidation
    /\ handlerCalls = <<>>
    /\ mainExit = NoExit
    /\ \/ /\ mainPc = "start"
          /\ validateArgs = NoCall
          /\ configOk \in BOOLEAN
          /\ \/ parsed = ParseFailed
             \/ parsed \in [ok : {TRUE}, help : BOOLEAN,
                            positionals : PositionalLists, values : ParsedValueSets]
       \/ /\ mainPc = "validate"
          /\ parsed = ParseFailed
          /\ configOk = TRUE
          /\ validateArgs \in [commandName : {"validate", "stack", "auto-album", "bogus"},
                               values : AnyValueSets]

\* main returns code without invoking a handler
MainReturns(code) ==
    /\ mainExit' = code
    /\ mainPc' = "returned"
    /\ UNCHANGED handlerCalls

\* main up to its return or to the call of the command's handler
MainStart ==
    /\ mainPc = "start"
    /\ IF ~parsed.ok
       THEN MainReturns(1) /\ UNCHANGED validation
       ELSE IF parsed.help \/ Len(parsed.positionals) = 0
       THEN MainReturns(0) /\ UNCHANGED validation
       ELSE IF ~IsRegistered(parsed.positionals[1])
       THEN MainReturns(1) /\ UNCHANGED validation
       ELSE /\ validation' = validateRequiredOptions(parsed.positionals[1], parsed.values)
            /\ IF ~validation'.valid
               THEN MainReturns(1)
               ELSE IF ~configOk
               THEN MainReturns(1)
               ELSE /\ handlerCalls' = Append(handlerCalls, parsed.positionals[1])
                    /\ mainPc' = "handler"
                    /\ UNCHANGED mainExit
    /\ UNCHANGED <<parsed, configOk, validateArgs>>
    /\ UNCHANGED <<pairVars, fetchVars, createVars, albumVars, cmdVars, stemVars>>
    /\ UNCHANGED <<configVars, validateVars>>

\* The handler settles and main returns its number, returns 1 on an
\* invalid date or an invalid regex, or throws the error again
HandlerSettles(outcome) ==
    /\ mainPc = "handler"
    /\ IF ~outcome.threw
       THEN mainExit' = outcome.code /\ mainPc' = "returned"
       ELSE IF outcome.message \in {"Invalid date", "Invalid regex"}
       THEN mainExit' = 1 /\ mainPc' = "returned"
       ELSE mainExit' = ExitOnError /\ mainPc' = "threw"
    /\ UNCHANGED <<parsed, configOk, validateArgs, validation, handlerCalls>>
    /\ UNCHANGED <<pairVars, fetchVars, createVars, albumVars, cmdVars, stemVars>>
    /\ UNCHANGED <<configVars, validateVars>>

\* A call of validateRequiredOptions on the registry
CallValidateRequiredOptions ==
    /\ mainPc = "validate"
    /\ validation' = validateRequiredOptions(validateArgs.commandName, validateArgs.values)
    /\ mainPc' = "validated"
    /\ UNCHANGED <<parsed, configOk, validateArgs, handlerCalls, mainExit>>
    /\ UNCHANGED <<pairVars, fetchVars, createVars, albumVars, cmdVars, stemVars>>
    /\ UNCHANGED <<configVars, validateVars>>

MainNext ==
    \/ MainStart
    \/ \E outcome \in HandlerOutcomes : HandlerSettles(outcome)
    \/ CallValidateRequiredOptions

\* ---------------------------------------------------------- specifications

InitPairs == PairsInit /\ FetchIdle /\ CreateIdle /\ AlbumIdle /\ CommandsIdle /\ StemIdle /\ MainIdle

\* findMatchingPairs on every asset list of the bounds
SpecPairs == InitPairs /\ [][PairsNext]_vars

InitFetch == FetchInit /\ PairsIdle /\ CreateIdle /\ AlbumIdle /\ CommandsIdle /\ StemIdle /\ MainIdle

\* One paginated fetch against every catalog of the bounds
SpecFetch == InitFetch /\ [][FetchNext]_vars

InitCreate ==
    CreateInit /\ CreateInput /\ FetchIdle /\ AlbumIdle /\ CommandsIdle /\ StemIdle /\ MainIdle

\* createStacks on every pair list of the bounds
SpecCreate == InitCreate /\ [][CreateNext]_vars

InitAlbum ==
    AlbumInit /\ PairsIdle /\ FetchIdle /\ CreateIdle /\ CommandsAt(1) /\ StemIdle /\ MainIdle

\* autoAlbum alone with the catalog
SpecAlbum == InitAlbum /\ [][AlbumNext]_vars

InitAlbumRace == InitAlbum /\ locations \in RaceLocationLists

\* autoAlbum while other clients of the catalog create albums
SpecAlbumRace == InitAlbumRace /\ [][AlbumRaceNext]_vars

InitPairsOrder ==
    PairsOrderInit /\ FetchIdle /\ CreateIdle /\ AlbumIdle /\ CommandsIdle /\ StemIdle /\ MainIdle

\* findMatchingPairs on every order of the assets of a catalog of five
SpecPairsOrder == InitPairsOrder /\ [][PairsOrderNext]_vars

InitStem == StemInit /\ PairsIdle /\ FetchIdle /\ CreateIdle /\ AlbumIdle /\ CommandsIdle /\ MainIdle

\* getFileStem on every file name and stem pattern of the bounds
SpecStem == InitStem /\ [][StemNext]_vars

InitCommands ==
    \/ StackInit /\ CreateIdle /\ AlbumIdle /\ StemIdle /\ MainIdle
    \/ AutoAlbumInit /\ PairsIdle /\ FetchIdle /\ CreateIdle /\ StemIdle /\ MainIdle

\* The stack command or the auto-album command from the call of its handler,
\* with every option set of the bounds and catalog calls that may fail
SpecCommands == InitCommands /\ [][CommandNext]_vars

InitPairsTwice ==
    PairsTwiceInit /\ FetchIdle /\ CreateIdle /\ AlbumIdle /\ CommandsIdle /\ StemIdle /\ MainIdle

\* findMatchingPairs called twice on every asset list of the bounds
SpecPairsTwice == InitPairsTwice /\ [][PairsTwiceNext]_vars

InitStack == StackRepeatsInit /\ CreateIdle /\ AlbumIdle /\ StemIdle /\ MainIdle

\* The stack command alone, from the call of its handler
SpecStack == InitStack /\ [][StackNext]_vars

InitMain ==
    /\ MainInit /\ ConfigIdle /\ ValidateIdle
    /\ PairsIdle /\ FetchIdle /\ CreateIdle /\ AlbumIdle /\ CommandsIdle /\ StemIdle

\* The state of main and of validateRequiredOptions while getConfig or
\* validate runs alone
MainAtRest ==
    /\ parsed = ParseFailed
    /\ configOk = TRUE
    /\ validateArgs = NoCall
    /\ validation = NoValidation
    /\ handlerCalls = <<>>
    /\ mainExit = NoExit
    /\ mainPc = "idle"

InitConfig ==
    /\ ConfigInit /\ MainAtRest /\ ValidateIdle
    /\ PairsIdle /\ FetchIdle /\ CreateIdle /\ AlbumIdle /\ CommandsIdle /\ StemIdle

\* getConfig on every pair of overrides and every environment of the bounds
SpecConfig == InitConfig /\ [][ConfigNext]_vars

InitValidate ==
    /\ ValidateInit /\ MainAtRest /\ ConfigIdle
    /\ PairsIdle /\ FetchIdle /\ CreateIdle /\ AlbumIdle /\ CommandsIdle /\ StemIdle

\* The validate command on every URL and every answer of the server
SpecValidate == InitValidate /\ [][ValidateNext]_vars

\* The stack command as in SpecCommands, or the auto-album command with
\* valid dates and without --dry-run, in a catalog with no album or one
InitRuns ==
    /\ InitCommands
    /\ autoPc # "idle" =>
          /\ ~dryRun
          /\ catalogAlbums \in {{}, {"Trip"}}
          /\ albumDates = [after |-> "2024-06-01", before |-> "2024-06-01"]

\* The order of the calls of either command, with catalog calls that may fail
SpecRuns == InitRuns /\ [][CommandNext]_vars

\* The option sets of the stack command on which it reaches its fetch
LiveOptionSets ==
    [ coverPattern : {{"j"}},
      rawPattern   : {{"d"}},
      stemPattern  : {NoStemPattern},
      dryRun       : BOOLEAN,
      after        : {NoOption},
      before       : {NoOption},
      albumId      : {NoOption, "album-1"} ]

\* The stack command on every asset list of the bounds and on a catalog
\* that answers every page request with a full page, or the auto-album
\* command creating an album from at most one location
InitLive ==
    \/ /\ StackInitFrom(LiveOptionSets, AssetLists \cup {EndlessCatalog}, {{}}, {TRUE})
       /\ matching = EndlessCatalog => stackOptions.albumId = NoOption
       /\ CreateIdle /\ AlbumIdle /\ StemIdle /\ MainIdle
    \/ /\ AutoAlbumInit /\ Len(locations) <= 1
       /\ ~dryRun /\ catalogAlbums \in {{}, {"Trip"}}
       /\ PairsIdle /\ FetchIdle /\ CreateIdle /\ StemIdle /\ MainIdle

\* The commands when every step that can be taken is eventually taken:
\* the handler goes on whenever it can, and every catalog call is
\* eventually answered or fails
SpecLive == InitLive /\ [][CommandNext]_vars /\ WF_vars(CommandNext)

\* main on every command line of the bounds, and validateRequiredOptions on
\* every record of values of the bounds
SpecMain == InitMain /\ [][MainNext]_vars

\* ------------------------------------------------ claims on the pair resolver

\* Sum of f[i] over i in 1..n
RECURSIVE SumTo(_, _)
SumTo(f, n) == IF n = 0 THEN 0 ELSE f[n] + SumTo(f, n - 1)

\* The groups the finalization loop has been through
GroupsDone == IF pairsPc = "classify" THEN 0 ELSE groupIdx - 1

PairsOfStem(stem) == { k \in 1..Len(pairs) : pairs[k].stem = stem }

\* The input positions holding an asset of a stem whose file name matches pattern p
InputOf(stem, p) ==
    { i \in 1..Len(assets) :
        /\ getFileStem(assets[i].originalFileName, stemPattern) = stem
        /\ RegexTest(p, assets[i].originalFileName) }

\* The input positions of a stem that the cover pattern matches
CoverInput(stem) == InputOf(stem, coverPattern)

\* The input positions of a stem that only the raw pattern matches
RawInput(stem) == InputOf(stem, rawPattern) \ InputOf(stem, coverPattern)

Max(S) == CHOOSE x \in S : \A y \in S : y <= x

\* C1: finalization emits len(raw) pairs for a group with a cover and raws,
\* adds len(raw) to skippedNoMatch for a group with raws and no cover, adds 1
\* for a group with a cover and no raw and nothing otherwise; the number of
\* pairs is the sum of len(raw) over the groups that have a cover.
C1_FinalizationCounts ==
    LET emitted == [g \in 1..Len(stemToAssets) |->
                      IF stemToAssets[g].cover # Undefined
                      THEN Len(stemToAssets[g].raw) ELSE 0]
        skipped == [g \in 1..Len(stemToAssets) |->
                      IF stemToAssets[g].cover = Undefined
                      THEN Len(stemToAssets[g].raw)
                      ELSE IF Len(stemToAssets[g].raw) = 0 THEN 1 ELSE 0]
    IN  /\ \A g \in 1..GroupsDone :
              Cardinality(PairsOfStem(stemToAssets[g].key)) = emitted[g]
        /\ \A g \in (GroupsDone + 1)..Len(stemToAssets) :
              PairsOfStem(stemToAssets[g].key) = {}
        /\ Len(pairs) = SumTo(emitted, GroupsDone)
        /\ skippedNoMatch = SumTo(skipped, GroupsDone)

\* C1 witness: a finished run with a pair group, a raw-only group and a
\* cover-only group
C1_Witness ==
    /\ pairsPc = "done"
    /\ Len(pairs) >= 1
    /\ skippedNoMatch >= 1
    /\ \E g \in 1..Len(stemToAssets) :
          stemToAssets[g].cover # Undefined /\ stemToAssets[g].raw = <<>>

\* C2: the cover of a group is the id of the last cover-classified asset of
\* its stem, every pair of the stem uses it, and the replaced-cover events of
\* a stem are one per cover after the first, each naming the stem, the file
\* of the cover it replaces and the file of the new cover.
C2_LastCoverWins ==
    \A g \in 1..Len(stemToAssets) :
        LET stem   == stemToAssets[g].key
            covers == CoverInput(stem)
            events == SelectSeq(replacedCovers, LAMBDA e : e.stem = stem)
            \* the k-th cover of the stem, in input order
            nth[k \in 1..Cardinality(covers)] ==
                CHOOSE i \in covers :
                    Cardinality({ j \in covers : j <= i }) = k
        IN  /\ stemToAssets[g].cover =
                  IF covers = {} THEN Undefined ELSE assets[Max(covers)].id
            /\ \A k \in PairsOfStem(stem) :
                  pairs[k].coverAssetId = assets[Max(covers)].id
            /\ Len(events) = IF covers = {} THEN 0 ELSE Cardinality(covers) - 1
            /\ \A k \in 1..Len(events) :
                  /\ events[k].oldFile = assets[nth[k]].originalFileName
                  /\ events[k].newFile = assets[nth[k + 1]].originalFileName

\* C2 witness: a stem saw two covers with different ids and then a raw, and the
\* pair uses the second cover
C2_Witness ==
    /\ pairsPc = "done"
    /\ Len(replacedCovers) = 1
    /\ \E k \in 1..Len(pairs), i, j \in 1..Len(assets) :
          /\ i < j
          /\ assets[i].id # assets[j].id
          /\ CoverInput(pairs[k].stem) = {i, j}
          /\ pairs[k].coverAssetId = assets[j].id

\* C3: an asset is a cover exactly if the cover pattern matches its file name
\* and a raw exactly if only the raw pattern does; an asset that neither
\* pattern matches is no group's cover or raw, is in no pair and is not
\* counted in skippedNoMatch.
C3_ClassificationRoles ==
    /\ \A g \in 1..Len(stemToAssets) :
          LET e == stemToAssets[g]
          IN  /\ (e.cover # Undefined) = (CoverInput(e.key) # {})
              /\ e.cover # Undefined =>
                    \E i \in CoverInput(e.key) : assets[i].id = e.cover
              /\ Len(e.raw) = Cardinality(RawInput(e.key))
              /\ \A k \in 1..Len(e.raw) :
                    \E i \in RawInput(e.key) : assets[i].id = e.raw[k]
    /\ \A k \in 1..Len(pairs) :
          /\ \E i \in CoverInput(pairs[k].stem) : assets[i].id = pairs[k].coverAssetId
          /\ \E i \in RawInput(pairs[k].stem) : assets[i].id = pairs[k].rawAssetId
    /\ pairsPc = "done" =>
          LET skipped == [g \in 1..Len(stemToAssets) |->
                  LET c == Cardinality(CoverInput(stemToAssets[g].key))
                      r == Cardinality(RawInput(stemToAssets[g].key))
                  IN  IF c = 0 THEN r ELSE IF r = 0 THEN 1 ELSE 0]
          IN  skippedNoMatch = SumTo(skipped, Len(stemToAssets))

\* C3 witness: the input holds an asset neither pattern matches that shares its
\* stem with a cover and a raw, and an asset both patterns match is a cover
C3_Witness ==
    /\ pairsPc = "done"
    /\ \E i \in 1..Len(assets) :
          LET f == assets[i].originalFileName
              stem == getFileStem(f, stemPattern)
          IN  /\ ~RegexTest(coverPattern, f) /\ ~RegexTest(rawPattern, f)
              /\ CoverInput(stem) # {}
              /\ \E g \in 1..Len(stemToAssets) :
                    /\ stemToAssets[g].key = stem
                    /\ RegexTest(rawPattern, catalog[stemToAssets[g].cover])

\* The first capture of the stem pattern on a file name: its leading run
Captured(fileName) == LeadingRun(fileName, stemPattern.class)

\* The stem C18 expects for a file name: the capture when a stem pattern is
\* given and captures something, the default stem otherwise
ExpectedStem(fileName) ==
    IF stemPattern.defined /\ Captured(fileName) # <<>>
    THEN Captured(fileName)
    ELSE getFileStem(fileName, NoStemPattern)

\* C18: with a stem pattern, an asset whose file name the pattern matches
\* with a non-empty first capture is grouped under that capture; any other
\* asset is grouped under its default stem and still takes its role there;
\* the mismatch set is the set of the file names of the input that fell back
\* to the default stem, and it is empty without a stem pattern.
C18_StemPatternFallback ==
    /\ \A i \in 1..Len(assets) :
          LET f == assets[i].originalFileName
          IN  /\ \E g \in 1..Len(stemToAssets) :
                    /\ stemToAssets[g].key = ExpectedStem(f)
                    /\ IF RegexTest(coverPattern, f)
                       THEN stemToAssets[g].cover # Undefined
                       ELSE RegexTest(rawPattern, f) =>
                              \E k \in 1..Len(stemToAssets[g].raw) :
                                  stemToAssets[g].raw[k] = assets[i].id
              /\ (f \in stemPatternMismatches) =
                    (stemPattern.defined /\ Captured(f) = <<>>)
    /\ \A g \in 1..Len(stemToAssets) :
          \E i \in 1..Len(assets) :
              stemToAssets[g].key = ExpectedStem(assets[i].originalFileName)
    /\ stemPatternMismatches \subseteq
          { assets[i].originalFileName : i \in 1..Len(assets) }
    /\ ~stemPattern.defined => stemPatternMismatches = {}

\* C18 witness: the stem pattern matches "b.j" and "b.d" with an empty capture
\* and "ab.d" with the capture "a": the first two fall back to the stem "b",
\* are paired and recorded as mismatches
C18_Witness ==
    /\ pairsPc = "done"
    /\ stemPattern.defined /\ stemPattern.emptyOk
    /\ stemPatternMismatches = { <<"b", ".", "j">>, <<"b", ".", "d">> }
    /\ Len(pairs) = 1
    /\ pairs[1].stem = <<"b">>
    /\ \E g \in 1..Len(stemToAssets) : stemToAssets[g].key = <<"a">>

\* C19: the cover and the raw of every emitted pair are assets of the input
\* whose file names both have the pair's stem as their computed stem, and the
\* pair's file names are theirs.
C19_PairOfOneStem ==
    \A k \in 1..Len(pairs) :
        LET p == pairs[k]
        IN  /\ \E i \in 1..Len(assets) :
                  /\ assets[i].id = p.coverAssetId
                  /\ assets[i].originalFileName = p.coverFileName
            /\ \E i \in 1..Len(assets) :
                  /\ assets[i].id = p.rawAssetId
                  /\ assets[i].originalFileName = p.rawFileName
            /\ getFileStem(p.coverFileName, stemPattern) = p.stem
            /\ getFileStem(p.rawFileName, stemPattern) = p.stem

\* C19 witness: "a.j", "ab.d" and "a.d" without a stem pattern: the pair is
\* "a.j" with "a.d", and "ab.d" of the stem "ab" is skipped
C19_Witness ==
    /\ pairsPc = "done"
    /\ ~stemPattern.defined
    /\ Len(pairs) = 1
    /\ pairs[1].stem = <<"a">>
    /\ pairs[1].rawFileName = <<"a", ".", "d">>
    /\ skippedNoMatch = 1
    /\ \E g \in 1..Len(stemToAssets) : stemToAssets[g].key = <<"a", "b">>

\* The input position at which a stem is first seen
FirstSeen(stem) ==
    CHOOSE i \in 1..Len(assets) :
        /\ getFileStem(assets[i].originalFileName, stemPattern) = stem
        /\ \A j \in 1..(i - 1) :
              getFileStem(assets[j].originalFileName, stemPattern) # stem

\* The input position of the asset with this id, when each asset is there once
PositionOf(id) == CHOOSE i \in 1..Len(assets) : assets[i].id = id

\* C20: of two pairs of different stems the one whose stem was seen first in
\* the input comes first, whatever role the asset that showed the stem first
\* has and wherever the covers are; of two pairs of one stem the one whose raw
\* asset arrived first comes first.
C20_PairOrder ==
    \A k, l \in 1..Len(pairs) :
        k < l =>
            IF pairs[k].stem # pairs[l].stem
            THEN FirstSeen(pairs[k].stem) < FirstSeen(pairs[l].stem)
            ELSE PositionOf(pairs[k].rawAssetId) < PositionOf(pairs[l].rawAssetId)

\* C20 witness: the stem "a" is first seen on "a.m", which neither pattern
\* matches, then come the cover and the raw of "b", then those of "a": the
\* pair of "a" is first although its cover came after the cover of "b"
C20_Witness ==
    /\ pairsPc = "done"
    /\ Len(assets) = 5
    /\ assets[1].originalFileName = <<"a", ".", "m">>
    /\ Len(pairs) = 2
    /\ pairs[1].stem = <<"a">>
    /\ pairs[2].stem = <<"b">>
    /\ PositionOf(pairs[2].coverAssetId) < PositionOf(pairs[1].coverAssetId)

\* The other case of C20: two raws of one stem, paired in arrival order with
\* a cover that came between them
C20_RawOrderReached ==
    /\ pairsPc = "done"
    /\ Len(pairs) >= 2
    /\ pairs[1].stem = pairs[2].stem
    /\ PositionOf(pairs[1].rawAssetId) < PositionOf(pairs[1].coverAssetId)
    /\ PositionOf(pairs[1].coverAssetId) < PositionOf(pairs[2].rawAssetId)

\* ------------------------------------------------ claims on the paginated fetch

\* C21: resolving the pairs a second time from the same asset list with the
\* same patterns returns the same pairs in the same order, the same
\* skippedNoMatch, the same stem pattern mismatches and the same replaced-cover
\* events as the first time.
C21_ResolvingTwice ==
    (firstRun.done /\ pairsPc = "done") =>
        /\ assets = firstRun.assets
        /\ pairs = firstRun.pairs
        /\ skippedNoMatch = firstRun.skippedNoMatch
        /\ stemPatternMismatches = firstRun.stemPatternMismatches
        /\ replacedCovers = firstRun.replacedCovers

\* The second call has returned on a list with a pair, a replaced cover and a
\* file name the stem pattern does not match.
C21_Witness ==
    /\ firstRun.done
    /\ pairsPc = "done"
    /\ pairs # <<>>
    /\ replacedCovers # <<>>
    /\ stemPatternMismatches # {}

\* The second call has returned on a list with an unmatched asset.
C21_SkippedReached ==
    /\ firstRun.done
    /\ pairsPc = "done"
    /\ skippedNoMatch > 0

RECURSIVE Concat(_)
Concat(seqs) == IF seqs = <<>> THEN <<>> ELSE Head(seqs) \o Concat(Tail(seqs))

\* C4: pages are requested as 1, 2, 3, ... with at most one request in flight;
\* page n+1 is requested only after page n returned exactly PageSize items and
\* none after a page with fewer items (an empty one included); the result is
\* the concatenation of the returned pages in page order, and a catalog
\* serving N matching assets in consecutive slices is read with exactly
\* floor(N / PageSize) + 1 requests.
C4_SequentialPagination ==
    /\ \A n \in 1..Len(requested) :
          requested[n].page = n /\ requested[n].size = PageSize
    /\ inFlight \in {0, 1}
    /\ Len(requested) =
          Len(returned) + inFlight + (IF fetchPc = "failed" THEN 1 ELSE 0)
    /\ \A n \in 1..Len(returned) :
          IF n < Len(requested) THEN Len(returned[n]) = PageSize
          ELSE Len(returned[n]) <= PageSize
    /\ fetchPc = "loop" /\ Len(returned) > 0 =>
          hasMore = (Len(returned[Len(returned)]) = PageSize)
    /\ fetchPc = "done" =>
          /\ Len(returned[Len(returned)]) < PageSize
          /\ result = Concat(returned)
          /\ result = matching
          /\ Len(requested) = (Len(matching) \div PageSize) + 1

\* C4 witness: a finished fetch of a non-empty catalog whose size is a
\* multiple of PageSize: full pages, then an empty page that ends it
C4_Witness ==
    /\ fetchPc = "done"
    /\ Len(requested) >= 3
    /\ returned[Len(returned)] = <<>>
    /\ fetchField = "city"

\* --------------------------------------------------------- claims on autoAlbum

Range(seq) == { seq[k] : k \in 1..Len(seq) }

NoDuplicates(seq) == \A i, j \in 1..Len(seq) : i # j => seq[i] # seq[j]

\* The position of the first occurrence of x in seq
FirstIndex(seq, x) ==
    CHOOSE i \in 1..Len(seq) : seq[i] = x /\ \A j \in 1..(i - 1) : seq[j] # x

\* The ids returned for the locations before the k-th
SeenBefore(k) == UNION { locationIds[j] : j \in 1..(k - 1) }

\* C5: what findAssetsForLocation returns is the city results, then the
\* country results, then the state results, with every later occurrence of an
\* id removed, whatever the order in which the three fetches completed.
C5_LocationResultOrder ==
    autoPc = "joined" =>
        LET concat == fetchers["city"].result \o fetchers["country"].result
                        \o fetchers["state"].result
            found  == locationSearch.assets
        IN  /\ NoDuplicates(found)
            /\ Range(found) = Range(concat)
            /\ \A i, j \in 1..Len(found) :
                  i < j => FirstIndex(concat, found[i]) < FirstIndex(concat, found[j])

\* C5 witness: the state fetch completed first and the city fetch last, an id
\* is returned by two fields, and the result starts with the city's first id
C5_Witness ==
    /\ autoPc = "joined"
    /\ completionOrder = <<"state", "country", "city">>
    /\ fetchers["city"].result = <<"1">>
    /\ fetchers["country"].result = <<"1", "2">>
    /\ fetchers["state"].result = <<"2">>
    /\ locationSearch.assets = <<"1", "2">>

\* C6: the accumulated id set holds each id once and as many ids as the field
\* fetches of the locations searched so far returned distinct ids; the id list
\* passed to createAlbum has no duplicates and is that set.
C6_TrueSet ==
    /\ NoDuplicates(allAssetIds)
    /\ Len(allAssetIds) = Cardinality(SeenBefore(Len(locationIds) + 1))
    /\ Range(allAssetIds) = SeenBefore(Len(locationIds) + 1)
    /\ \A c \in 1..Len(albumCalls) :
          /\ NoDuplicates(albumCalls[c].assetIds)
          /\ Range(albumCalls[c].assetIds) = SeenBefore(Len(locations) + 1)
          /\ Len(locationIds) = Len(locations)

\* C6 witness: createAlbum was called after two locations whose fetches
\* returned the same ids more than once
C6_Witness ==
    /\ Len(albumCalls) = 1
    /\ Len(locations) = 2
    /\ locationIds = << {"1", "2"}, {"1", "2"} >>
    /\ Len(albumCalls[1].assetIds) = 2

\* C7: the count reported for a location is the number of ids its fetches
\* returned that no earlier location returned, so an asset matching several
\* locations is counted for the first of them only.
C7_CountsNewAssets ==
    /\ Len(locationResults) = Len(locationIds)
    /\ \A k \in 1..Len(locationResults) :
          /\ locationResults[k].location = locations[k]
          /\ locationResults[k].count =
                Cardinality(locationIds[k] \ SeenBefore(k))

\* C7 witness: the second location matches an asset of the first and a new one
C7_Witness ==
    /\ Len(locationResults) = 2
    /\ locationIds = << {"1"}, {"1", "2"} >>
    /\ locationResults[1].count = 1
    /\ locationResults[2].count = 1

\* C8: if the listing of the pre-check holds an album whose name is exactly
\* the target name, autoAlbum returns 1 and never calls createAlbum; a listing
\* holding only a name that differs in letter case is no conflict.
C8_ConflictStopsCommand ==
    autoPc # "precheck" =>
        IF albumName \in allAlbums
        THEN exitStatus = 1 /\ autoPc = "done" /\ albumCalls = <<>>
        ELSE /\ autoPc = "done" /\ exitStatus = 1 => albumCalls # <<>>
             /\ autoPc = "done" /\ ~dryRun => albumCalls # <<>>

\* C8 witness: the listing holds the target name "Trip" beside "trip", and the
\* command has ended with 1 without a createAlbum call
C8_Witness ==
    /\ albumName = "Trip"
    /\ allAlbums = {"Trip", "trip"}
    /\ autoPc = "done"
    /\ exitStatus = 1
    /\ albumCalls = <<>>

\* The other case of C8: the listing holds "trip" only, the target is "Trip",
\* and the album is created
C8_CaseDiffersReached ==
    /\ allAlbums = {"trip"}
    /\ albumName = "Trip"
    /\ autoPc = "done"
    /\ exitStatus = 0
    /\ Len(albumCalls) = 1

\* C9 as stated: when createAlbum is issued the catalog holds no album with
\* the target name.
C9_NoAlbumAtCreate ==
    \A c \in 1..Len(albumCalls) : albumName \notin catalogAtCreate[c]

\* C9 amended: when createAlbum is issued, the listing of the pre-check holds
\* no album with the target name, and the catalog holds one only if another
\* client created it after that listing.
C9_NoListedAlbumAtCreate ==
    \A c \in 1..Len(albumCalls) :
        /\ albumName \notin allAlbums
        /\ albumName \in catalogAtCreate[c] => albumName \in createdSinceListing
        /\ allAlbums \subseteq catalogAtCreate[c]

\* C9 witness: createAlbum is issued after another client created an album
\* with the target name during the searches
C9_Witness ==
    /\ Len(albumCalls) = 1
    /\ albumName \in catalogAtCreate[1]
    /\ albumName \in createdSinceListing
    /\ Len(locationResults) = 1

\* ------------------------------------------------------ claims on createStacks

\* C10: createStacks issues one createStack call per pair, in the order of the
\* pairs, each with [coverId, rawId] of its pair, at most one in flight and
\* none repeated; a failing call does not prevent the calls after it, and the
\* returned count is the number of calls that succeeded.
C10_OneCallPerPair ==
    /\ Len(stackCalls) <= Len(pairs)
    /\ \A k \in 1..Len(stackCalls) :
          stackCalls[k] = <<pairs[k].coverAssetId, pairs[k].rawAssetId>>
    /\ stacksInFlight \in {0, 1}
    /\ Len(stackCalls) = Len(stackOutcomes) + stacksInFlight
    /\ created = Cardinality({ k \in 1..Len(stackOutcomes) : stackOutcomes[k] = "ok" })
    /\ createPc = "done" =>
          /\ Len(stackCalls) = Len(pairs)
          /\ stacksInFlight = 0

\* C10 witness: three pairs, the first call failed, the calls after it were
\* issued and succeeded
C10_Witness ==
    /\ createPc = "done"
    /\ Len(pairs) = 3
    /\ stackOutcomes = <<"error", "ok", "ok">>
    /\ created = 2
    /\ pairs[1].coverAssetId # pairs[2].coverAssetId

\* ------------------------------------------------------- claims on getFileStem

\* C17: without a stem pattern getFileStem returns the file name itself when
\* it holds no dot, and otherwise the part before its last dot: the result
\* followed by a dot and by a dot-free rest is the file name. A leading dot is
\* a dot like any other, and the empty name gives the empty stem.
C17_DefaultStem ==
    stemPc = "returned" /\ ~stemArg.defined =>
        LET f == stemFileName
            n == Len(stemResult)
        IN  /\ IF \A i \in 1..Len(f) : f[i] # "."
               THEN stemResult = f
               ELSE /\ n < Len(f)
                    /\ \A i \in 1..n : stemResult[i] = f[i]
                    /\ f[n + 1] = "."
                    /\ \A i \in (n + 2)..Len(f) : f[i] # "."
            /\ f = <<>> => stemResult = <<>>
            /\ stemWarned = {}

\* C17 witness: ".a.b" gives ".a"
C17_Witness ==
    /\ stemPc = "returned"
    /\ ~stemArg.defined
    /\ stemFileName = <<".", "a", ".", "b">>
    /\ stemResult = <<".", "a">>

\* ------------------------------------------------------ claims on the commands

\* C11: a stack command that ended without a configuration or retrieval error
\* has status 0 or 1; the status is 1 exactly if a createStack call failed and
\* 0 exactly if every call issued succeeded; with no asset fetched or no pair
\* resolved no createStack call was issued and the status is 0, whatever the
\* stem-pattern mismatches and the cover replacements.
C11_StackExitStatus ==
    stackPc = "done" /\ thrown = "none" =>
        LET failedCalls == { k \in 1..Len(stackOutcomes) : stackOutcomes[k] = "error" }
        IN  /\ stackExit \in {0, 1}
            /\ Len(stackOutcomes) = Len(stackCalls)
            /\ (stackExit = 1) = (failedCalls # {})
            /\ (stackExit = 0) = (failedCalls = {})
            /\ Len(fetched) = 0 \/ Len(pairs) = 0 =>
                  stackCalls = <<>> /\ stackExit = 0
            /\ ~stackOptions.dryRun => Len(stackCalls) = Len(pairs)

\* C11 witness: two pairs, the first createStack call succeeded and the second
\* failed, the status is 1
C11_Witness ==
    /\ stackPc = "done"
    /\ thrown = "none"
    /\ stackOutcomes = <<"ok", "error">>
    /\ stackExit = 1

\* The other case of C11: a cover was replaced, a file name missed the stem
\* pattern, and the only call succeeded: the status is 0
C11_WarningsOnlyReached ==
    /\ stackPc = "done"
    /\ stackExit = 0
    /\ stackOutcomes = <<"ok">>
    /\ (replacedCovers # <<>> \/ stemPatternMismatches # {})

\* The state part of C12
C12_Discarded ==
    /\ fetchPc = "failed" =>
          /\ inFlight = 0
          /\ Len(requested) = Len(returned) + 1
          /\ stackPc \in {"fetch", "done"}
          /\ stackPc = "done" => thrown = "request failed" /\ stackExit = 1
          /\ pairsPc = "idle" /\ assets = <<>> /\ fetched = <<>>
          /\ stackCalls = <<>>
    /\ \A f \in Fields :
          fetchers[f].status = "failed" =>
              /\ autoPc = "failed"
              /\ thrown = "request failed" /\ exitStatus = 1
              /\ \A k \in 1..Len(fetchers[f].result) :
                    fetchers[f].result[k] \in Range(allAssetIds) =>
                        fetchers[f].result[k] \in SeenBefore(locIdx)
              /\ albumCalls = <<>>

\* The step part of C12
C12_NoFurtherRequest ==
    /\ fetchPc = "failed" => requested' = requested /\ fetchPc' = "failed"
    /\ \A f \in Fields :
          fetchers[f].status = "failed" => fetchers'[f] = fetchers[f]

\* C12: once a page request of a fetch has failed, that fetch sends no further
\* request and stays failed; the error leaves the command, which ends with a
\* non-zero status; the pages received before the failure are not handed to
\* findMatchingPairs and not added to the aggregation set; no createStack and
\* no createAlbum call is issued.
C12_FailedFetchDiscarded ==
    /\ []C12_Discarded
    /\ [][C12_NoFurtherRequest]_vars

\* C12 witness: fetchAssets received a full page, its second request failed,
\* and the stack command has ended
C12_Witness ==
    /\ fetchPc = "failed"
    /\ Len(returned) = 1
    /\ Len(returned[1]) = PageSize
    /\ stackPc = "done"

\* The other case of C12: a field fetch of autoAlbum received a full page and
\* its second request failed
C12_FieldFetchReached ==
    /\ autoPc = "failed"
    /\ \E f \in Fields :
          fetchers[f].status = "failed" /\ Len(fetchers[f].result) = PageSize

\* C13: when one of the three field fetches of a location has failed, whatever
\* the other two have done by then, the error has left autoAlbum with a
\* non-zero status; the running set and the counts are those of the locations
\* before it, no later location is searched and createAlbum was not called.
C13_LocationFailsAsWhole ==
    (\E f \in Fields : fetchers[f].status = "failed") =>
        /\ autoPc = "failed"
        /\ thrown = "request failed"
        /\ exitStatus # 0
        /\ locationSearch = NoSearch
        /\ Range(allAssetIds) = SeenBefore(locIdx)
        /\ Len(locationIds) = locIdx - 1
        /\ Len(locationResults) = locIdx - 1
        /\ locIdx <= Len(locations)
        /\ albumCalls = <<>>

\* C13 witness: in the second location the country fetch has returned an
\* asset that is not in the running set, the state fetch is in flight, and the
\* city fetch failed
C13_Witness ==
    /\ locIdx = 2
    /\ fetchers["city"].status = "failed"
    /\ fetchers["country"].status = "done"
    /\ fetchers["country"].result = <<"2">>
    /\ fetchers["state"].status = "await"
    /\ allAssetIds = <<"1">>
    /\ autoPc = "failed"

\* C14 as stated: an invalid pattern or an invalid date among the options of
\* a command is detected before any catalog call: no getAlbumInfo, search,
\* listing, createStack or createAlbum call is issued, and the command ends
\* with a non-zero status, the stack command restricted to an album included.
C14_ConfigErrorsBeforeCalls ==
    /\ ( /\ stackPc \notin {"idle", "start"}
         /\ \/ stackOptions.coverPattern = InvalidPattern
            \/ stackOptions.rawPattern = InvalidPattern
            \/ stackOptions.stemPattern = InvalidStemPattern
            \/ stackOptions.after = "invalid-date"
            \/ stackOptions.before = "invalid-date" ) =>
          /\ albumInfoCalls = 0
          /\ requested = <<>>
          /\ stackCalls = <<>>
          /\ stackPc = "done"
          /\ stackExit # 0
    /\ ( /\ autoPc \notin {"idle", "start"}
         /\ \/ albumDates.after = "invalid-date"
            \/ albumDates.before = "invalid-date" ) =>
          /\ listingCalls = 0
          /\ \A f \in Fields : fetchers[f].status = "idle"
          /\ albumCalls = <<>>
          /\ autoPc = "failed"
          /\ exitStatus # 0

\* The run that refutes C14: the stack command is restricted to an album, its
\* --after value is no date, and it has ended with status 0 after creating a
\* stack
C14_AlbumWithInvalidDateReached ==
    /\ stackOptions.albumId # NoOption
    /\ stackOptions.after = "invalid-date"
    /\ albumInfoCalls = 1
    /\ stackPc = "done"
    /\ stackExit = 0
    /\ Len(stackCalls) >= 1

\* C15: autoAlbum issues at most one createAlbum call; a run that is no dry
\* run, found no name conflict and returned has issued exactly one, with the
\* target name and the ids of every location's fetches, each once, which is
\* the empty list for an empty location list or when nothing matched; its
\* status is 0 if the call succeeded and 1 if it failed.
C15_OneCreateAlbumCall ==
    /\ Len(albumCalls) <= 1
    /\ albumCalls # <<>> => ~dryRun /\ albumName \notin allAlbums
    /\ autoPc = "done" /\ ~dryRun /\ albumName \notin allAlbums =>
          /\ Len(albumCalls) = 1
          /\ albumCalls[1].albumName = albumName
          /\ NoDuplicates(albumCalls[1].assetIds)
          /\ Range(albumCalls[1].assetIds) = SeenBefore(Len(locations) + 1)
          /\ Len(locationIds) = Len(locations)
          /\ exitStatus \in {0, 1}
          /\ (exitStatus = 0) = (albumName \in catalogAlbums)

\* C15 witness: an empty location list, one createAlbum call with an empty id
\* list that succeeded, status 0
C15_Witness ==
    /\ locations = <<>>
    /\ albumCalls = << [albumName |-> "Trip", assetIds |-> <<>>] >>
    /\ "Trip" \in catalogAlbums
    /\ autoPc = "done"
    /\ exitStatus = 0

\* Other cases of C15: two locations that matched nothing, and the call failed
C15_FailedCallReached ==
    /\ Len(locations) = 2
    /\ Len(albumCalls) = 1
    /\ albumCalls[1].assetIds = <<>>
    /\ autoPc = "done"
    /\ exitStatus = 1

\* C16: in a dry run the stack command issues no createStack call and the
\* auto-album command no createAlbum call; a dry run that returned has issued
\* its read-only calls: getAlbumInfo or at least one search for the stack
\* command, the album listing and the searches of every location for the
\* auto-album command when no name conflict ended it.
C16_DryRunMutatesNothing ==
    /\ stackOptions.dryRun =>
          /\ stackCalls = <<>>
          /\ createPc = "idle"
          /\ stackPc = "done" /\ thrown = "none" =>
                IF stackOptions.albumId # NoOption
                THEN albumInfoCalls = 1 /\ requested = <<>>
                ELSE albumInfoCalls = 0 /\ Len(requested) >= 1
    /\ dryRun =>
          /\ albumCalls = <<>>
          /\ autoPc # "creating"
          /\ autoPc = "done" =>
                /\ listingCalls = 1
                /\ exitStatus = 0 => Len(locationIds) = Len(locations)

\* C16 witness: a dry run of the stack command that resolved a pair and has
\* returned 0 after two searches
C16_Witness ==
    /\ stackOptions.dryRun
    /\ stackPc = "done"
    /\ stackExit = 0
    /\ Len(pairs) >= 1
    /\ Len(requested) = 2
    /\ stackCalls = <<>>

\* The other case of C16: a dry run of autoAlbum that found assets in two
\* locations and has returned 0
C16_AlbumDryRunReached ==
    /\ dryRun
    /\ autoPc = "done"
    /\ exitStatus = 0
    /\ Len(locationResults) = 2
    /\ Len(allAssetIds) = 2
    /\ listingCalls = 1

\* ------------------------------------------- claims on unmatched members

\* The input positions whose file name the cover or the raw pattern matches
ClassifiedInput ==
    { i \in 1..Len(assets) :
        \/ RegexTest(coverPattern, assets[i].originalFileName)
        \/ RegexTest(rawPattern, assets[i].originalFileName) }

\* The ids that are the cover or the raw of an emitted pair
PairedIds ==
    { pairs[k].coverAssetId : k \in 1..Len(pairs) }
        \cup { pairs[k].rawAssetId : k \in 1..Len(pairs) }

\* No id occurs twice in the input list
DistinctIds ==
    \A i, j \in 1..Len(assets) : i # j => assets[i].id # assets[j].id

\* The input positions of the covers a later cover of the same stem replaced
ReplacedInput ==
    { i \in 1..Len(assets) :
        LET stem == getFileStem(assets[i].originalFileName, stemPattern)
        IN  /\ i \in CoverInput(stem)
            /\ \E j \in CoverInput(stem) : j > i }

\* C22 as claimed: every cover- or raw-classified input asset is in an
\* emitted pair or counted once in skippedNoMatch, so for an input with
\* distinct ids the number of classified assets is the number of distinct
\* assets in pairs plus skippedNoMatch.
C22_UnmatchedCounted ==
    (pairsPc = "done" /\ DistinctIds) =>
        Cardinality(ClassifiedInput) = Cardinality(PairedIds) + skippedNoMatch

\* C22 amended: for an input with distinct ids, every classified asset is in
\* an emitted pair, or is a cover that a later cover of its stem replaced, or
\* belongs to a group that emitted no pair; the number of classified assets
\* is the number of distinct assets in pairs plus skippedNoMatch plus the
\* number of replaced-cover events.
C22_UnmatchedOrReplaced ==
    (pairsPc = "done" /\ DistinctIds) =>
        /\ Cardinality(ClassifiedInput) =
              Cardinality(PairedIds) + skippedNoMatch + Len(replacedCovers)
        /\ Len(replacedCovers) = Cardinality(ReplacedInput)
        /\ \A i \in ClassifiedInput :
              LET stem  == getFileStem(assets[i].originalFileName, stemPattern)
                  entry == MapGet(stemToAssets, stem)
              IN  \/ assets[i].id \in PairedIds
                  \/ i \in ReplacedInput
                  \/ /\ PairsOfStem(stem) = {}
                     /\ GroupSkipped(entry) > 0

\* C22 witness: three distinct assets, two covers of one stem and a raw: the
\* second cover and the raw are paired, the first cover is a replaced-cover
\* event and nothing is counted as unmatched.
C22_Witness ==
    /\ pairsPc = "done"
    /\ DistinctIds
    /\ Cardinality(ClassifiedInput) = 3
    /\ Len(pairs) = 1
    /\ Len(replacedCovers) = 1
    /\ skippedNoMatch = 0

\* A raw without a cover and a cover without a raw are both counted.
C22_BothCountedReached ==
    /\ pairsPc = "done"
    /\ DistinctIds
    /\ pairs = <<>>
    /\ replacedCovers = <<>>
    /\ skippedNoMatch = 2

\* ------------------------------------------ claims on repeated input assets

\* How many times x occurs in seq
Occurrences(seq, x) == Cardinality({ i \in 1..Len(seq) : seq[i] = x })

\* The input positions of a stem at which id occurs as a raw
RawInputOf(stem, id) == { i \in RawInput(stem) : assets[i].id = id }

\* The pairs whose raw asset is id
PairsWithRaw(id) == { k \in 1..Len(pairs) : pairs[k].rawAssetId = id }

\* C23: a raw-classified id occurs in the raw list of its stem group as many
\* times as it occurs in the input and in no other group's raw list; once the
\* resolver has returned, an id that occurs k times as a raw is the raw of k
\* identical pairs when its group has a cover and of none otherwise, and when
\* createStacks has returned k createStack calls were issued for it.
C23_RawOccurrences ==
    /\ \A g \in 1..Len(stemToAssets), id \in AssetIds :
          Occurrences(stemToAssets[g].raw, id) =
              Cardinality(RawInputOf(stemToAssets[g].key, id))
    /\ pairsPc = "done" =>
          \A g \in 1..Len(stemToAssets), id \in AssetIds :
              LET k == Cardinality(RawInputOf(stemToAssets[g].key, id))
              IN  k > 0 =>
                    /\ Cardinality(PairsWithRaw(id)) =
                          IF HasCover(stemToAssets[g]) THEN k ELSE 0
                    /\ \A p, q \in PairsWithRaw(id) : pairs[p] = pairs[q]
                    /\ createPc = "done" =>
                          Cardinality({ c \in 1..Len(stackCalls) :
                                          stackCalls[c][2] = id }) =
                              IF HasCover(stemToAssets[g]) THEN k ELSE 0

\* C23 witness: an id occurred twice in the input as a raw of a group with a
\* cover; two identical pairs were emitted and two createStack calls issued.
C23_Witness ==
    /\ pairsPc = "done"
    /\ createPc = "done"
    /\ \E id \in AssetIds :
          /\ Cardinality(PairsWithRaw(id)) = 2
          /\ Cardinality({ c \in 1..Len(stackCalls) : stackCalls[c][2] = id }) = 2
          /\ Occurrences([i \in 1..Len(assets) |-> assets[i].id], id) = 2

\* ------------------------------------------ claims on assets already stacked

\* C24: a cover and a raw of which one already belongs to a stack are not
\* emitted as a pair, so no createStack call is issued for an asset that is
\* already stacked.
C24_StackedNotPaired ==
    /\ \A k \in 1..Len(pairs) :
          /\ pairs[k].coverAssetId \notin stacked
          /\ pairs[k].rawAssetId \notin stacked
    /\ \A c \in 1..Len(stackCalls) :
          /\ stackCalls[c][1] \notin stacked
          /\ stackCalls[c][2] \notin stacked

\* The stack command given an album has issued a createStack call whose cover
\* already belongs to a stack and has ended with status 0.
C24_StackedCoverCallReached ==
    /\ stackPc = "done"
    /\ stackExit = 0
    /\ stackOptions.albumId # NoOption
    /\ \E c \in 1..Len(stackCalls) : stackCalls[c][1] \in stacked

\* ------------------------------------------ claims on the per-field counts

\* The three result lists of the location, city then country then state
FieldResults == [i \in 1..Len(LOCATION_FIELDS) |-> fetchers[LOCATION_FIELDS[i]].result]

\* C25: the per-field counts findAssetsForLocation returns are the lengths of
\* the city, country and state result lists before deduplication; their sum is
\* at least the length of the deduplicated asset list it returns, and equal to
\* it exactly when no id is repeated within or across the three lists.
C25_CountsBeforeDedup ==
    autoPc = "joined" =>
        LET counts == locationSearch.countsByField
            total  == SumTo([i \in 1..Len(LOCATION_FIELDS) |->
                               counts[LOCATION_FIELDS[i]]], Len(LOCATION_FIELDS))
        IN  /\ \A f \in Fields : counts[f] = Len(fetchers[f].result)
            /\ total >= Len(locationSearch.assets)
            /\ (total = Len(locationSearch.assets)) <=> NoDuplicates(Concat(FieldResults))

\* C25 witness: one asset was returned by the city search and by the country
\* search: both counts are 1 and the location has one asset.
C25_Witness ==
    /\ autoPc = "joined"
    /\ locationSearch.countsByField["city"] = 1
    /\ locationSearch.countsByField["country"] = 1
    /\ locationSearch.countsByField["state"] = 0
    /\ Len(locationSearch.assets) = 1

\* One search returned the same asset twice.
C25_RepeatInFieldReached ==
    /\ autoPc = "joined"
    /\ locationSearch.countsByField["city"] = 2
    /\ Len(locationSearch.assets) = 1

\* -------------------------------------- claims on the order of the locations

\* The searchAssets calls in flight, over all locations
TotalInFlight == SumTo(searchesInFlight, Len(searchesInFlight))

\* At most three searchAssets calls are in flight, all of them for the
\* location the loop is at, one per fetch that has not completed; the
\* locations are accumulated in the supplied order.
C26_InFlightOfOneLocation ==
    /\ TotalInFlight <= Len(LOCATION_FIELDS)
    /\ \A k \in 1..Len(searchesInFlight) : searchesInFlight[k] > 0 => k = locIdx
    /\ autoPc = "search" =>
          searchesInFlight[locIdx] =
              Cardinality({ f \in Fields : fetchers[f].status = "await" })
    /\ \A k \in 1..Len(locationResults) :
          locationResults[k].location = locations[k]

\* A step that issues the searches of location k is taken at location k - 1
\* with its three fetches done and none of its searches in flight.
C26_IssuedAfterJoin ==
    \A k \in 1..Len(searchesInFlight) :
        searchesInFlight'[k] > searchesInFlight[k] =>
            /\ locIdx' = k
            /\ searchesInFlight[k] = 0
            /\ k > 1 =>
                  /\ locIdx = k - 1
                  /\ \A f \in Fields : fetchers[f].status = "done"
                  /\ searchesInFlight[k - 1] = 0
                  /\ Len(locationResults) = k - 2

\* C26: the locations are processed one after another in the supplied order:
\* no search of location k+1 is issued before the three field fetches of
\* location k have completed successfully, so at most three search requests
\* are in flight at any moment and they belong to one location.
C26_LocationsInTurn == []C26_InFlightOfOneLocation /\ [][C26_IssuedAfterJoin]_vars

\* C26 witness: the three searches of the second location are in flight, the
\* first location is accumulated and none of its searches is in flight.
C26_Witness ==
    /\ autoPc = "search"
    /\ locIdx = 2
    /\ searchesInFlight = <<0, 3>>
    /\ Len(locationResults) = 1

\* A search of the second location failed while another was in flight.
C26_FailureAtSecondReached ==
    /\ autoPc = "failed"
    /\ locIdx = 2
    /\ searchesInFlight[2] > 0

\* ------------------------------------------- claims on the album pre-check

\* The listing of the existing albums was requested and has been answered
ListingCompleted ==
    /\ listingCalls >= 1
    /\ autoPc \in {"search", "joined", "creating", "done", "failed"}

\* C27 as claimed: in both mutation modes a full listing of the existing
\* albums is requested and completes before the first mutating call: no
\* createStack and no createAlbum call precedes its completion.
C27_ListingBeforeMutation ==
    (stackCalls # <<>> \/ albumCalls # <<>>) => ListingCompleted

\* C27 amended: in album creation a full listing of the existing albums is
\* requested and has been answered before the createAlbum call is issued; the
\* stack command requests no listing, and its createStack calls are issued
\* after the asset list was fetched and the pairs were resolved.
C27_ListingBeforeCreateAlbum ==
    /\ albumCalls # <<>> =>
          /\ ListingCompleted
          /\ listingCalls = 1
          /\ albumName \notin allAlbums
    /\ stackCalls # <<>> =>
          /\ listingCalls = 0
          /\ pairsPc = "done"
          /\ albumInfoCalls = 1 \/ requested # <<>>

\* C27 witness: the createAlbum call is in flight after the listing.
C27_Witness ==
    /\ autoPc = "creating"
    /\ Len(albumCalls) = 1
    /\ listingCalls = 1

\* A createStack call was issued by a run that requested no listing.
C27_StackWithoutListingReached ==
    /\ stackCalls # <<>>
    /\ listingCalls = 0

\* ------------------------------------- claims on the source of the asset list

\* stack() has its asset list
AssetListFetched ==
    /\ stackPc \in {"pairs", "create", "done"}
    /\ thrown = "none"

\* C28: given an album id, the stack command issues one album-info call and
\* no searchAssets call, and its asset list is the album's assets, or empty
\* when the album info has no asset list, whatever --after and --before are;
\* without an album id it issues no album-info call and its asset list is the
\* concatenation of the pages of the paginated search.
C28_AssetListSource ==
    /\ stackOptions.albumId # NoOption =>
          /\ requested = <<>>
          /\ albumInfoCalls <= 1
          /\ AssetListFetched =>
                /\ albumInfoCalls = 1
                /\ fetched = IF albumHasAssetList THEN matching ELSE <<>>
    /\ (stackOptions.albumId = NoOption /\ stackPc # "idle") =>
          /\ albumInfoCalls = 0
          /\ AssetListFetched =>
                /\ requested # <<>>
                /\ fetched = Concat(returned)

\* C28 witness: the album's assets were fetched with one album-info call
\* although --after is set, and the pairs are being resolved from them.
C28_Witness ==
    /\ stackOptions.albumId # NoOption
    /\ stackOptions.after # NoOption
    /\ AssetListFetched
    /\ albumInfoCalls = 1
    /\ Len(fetched) = 3

\* The album info had no asset list: the list is empty and the command ends.
C28_NoAssetListReached ==
    /\ stackOptions.albumId # NoOption
    /\ ~albumHasAssetList
    /\ matching # <<>>
    /\ AssetListFetched
    /\ fetched = <<>>
    /\ stackExit = 0

\* Without an album id the list came from two pages of the search.
C28_SearchReached ==
    /\ stackOptions.albumId = NoOption
    /\ AssetListFetched
    /\ Len(returned) = 2
    /\ Len(fetched) = 3

\* --------------------------------- claims on what the concurrent fetches write

\* The fields whose fetch changes in the step
FetchesWritten == { f \in Fields : fetchers'[f] # fetchers[f] }

\* Is seq a prefix of longer?
IsPrefix(seq, longer) ==
    /\ Len(seq) <= Len(longer)
    /\ SubSeq(longer, 1, Len(seq)) = seq

\* A step taken while the fetches of a location run writes the fetch of one
\* field only, appends to its result list, and leaves the location's result,
\* the running set and the per-location counts alone.
C29_FetchWritesOwnList ==
    (autoPc = "search" /\ \E f \in Fields : fetchers[f].status # "done") =>
        /\ Cardinality(FetchesWritten) <= 1
        /\ \A f \in FetchesWritten :
              IsPrefix(fetchers[f].result, fetchers'[f].result)
        /\ locationSearch' = locationSearch
        /\ allAssetIds' = allAssetIds
        /\ locationResults' = locationResults

\* A step that writes the location's result, the running set or the
\* per-location counts is taken when the three fetches are done.
C29_SharedWrittenAfterJoin ==
    (\/ locationSearch' # locationSearch
     \/ allAssetIds' # allAssetIds
     \/ locationResults' # locationResults) =>
        \A f \in Fields : fetchers[f].status = "done"

\* C29: no structure is written by more than one concurrent task: each of the
\* three field fetches appends to its own result list only, and the
\* per-location dedup result, the running cross-location set and the
\* per-location counts are written only after the three fetches were joined.
C29_NoSharedWrites ==
    [][C29_FetchWritesOwnList /\ C29_SharedWrittenAfterJoin]_vars

\* C29 witness: at the second location two fetches hold different results, the
\* third is still waiting, and the running set holds the first location's.
C29_Witness ==
    /\ autoPc = "search"
    /\ locIdx = 2
    /\ allAssetIds # <<>>
    /\ fetchers["city"].result # <<>>
    /\ fetchers["country"].result # <<>>
    /\ fetchers["city"].result # fetchers["country"].result
    /\ fetchers["state"].status = "await"

\* ---------------------------------------------------------------- C30

\* main has returned, has thrown or is awaiting the command's handler
MainSettled == mainPc \in {"handler", "returned", "threw"}

\* A required option of the command is undefined or null in values, or is
\* repeatable and an empty list
RequiredMissing(commandName, values) ==
    \E k \in 1..Len(CommandOptions(commandName)) :
        LET opt == CommandOptions(commandName)[k]
            value == ValueOf(values, opt.name)
        IN  /\ opt.required
            /\ \/ value = UndefinedValue
               \/ value = NullValue
               \/ opt.multiple /\ value = ArrayValue(<<>>)

\* The command line parsed and names a command the registry lacks
UnknownCommand ==
    /\ parsed.ok
    /\ Len(parsed.positionals) > 0
    /\ ~IsRegistered(parsed.positionals[1])

\* The command line parsed and lacks a required option of its command
MissingRequired ==
    /\ parsed.ok
    /\ Len(parsed.positionals) > 0
    /\ IsRegistered(parsed.positionals[1])
    /\ RequiredMissing(parsed.positionals[1], parsed.values)

\* The command line parsed and has the help flag or no positional
HelpOrNoCommand ==
    /\ parsed.ok
    /\ parsed.help \/ Len(parsed.positionals) = 0

\* validateRequiredOptions lists exactly the required options that count
\* as missing, in the order of the command's options
ValidationAsSpecified ==
    mainPc = "validated" /\ ~validation.threw =>
        /\ validation.valid = ~RequiredMissing(validateArgs.commandName, validateArgs.values)
        /\ validation.valid = (validation.missing = <<>>)
        /\ \A name \in OptionNames :
               (\E k \in 1..Len(validation.missing) : validation.missing[k] = name) =>
                   LET value == ValueOf(validateArgs.values, name)
                   IN  \/ value = UndefinedValue
                       \/ value = NullValue
                       \/ value = ArrayValue(<<>>)

\* C30 as stated: main returns 1 without invoking a handler whenever the
\* command name is unknown or a required option is missing, and 0 without
\* invoking a handler whenever the help flag is given or no positional is.
C30_UnknownOrMissingReturnsOne ==
    /\ MainSettled =>
        /\ UnknownCommand \/ MissingRequired =>
               mainExit = 1 /\ handlerCalls = <<>> /\ mainPc = "returned"
        /\ HelpOrNoCommand =>
               mainExit = 0 /\ handlerCalls = <<>> /\ mainPc = "returned"
    /\ ValidationAsSpecified

\* C30, amended: on a command line that does not parse main returns 1; on
\* one that parses, the help flag or the absence of a positional makes main
\* return 0, whatever the command name and the options are; otherwise an
\* unknown command name or a missing required option makes main return 1.
\* In all these cases no handler is invoked. A required option counts as
\* missing when its value is undefined or null, or when it is repeatable
\* and its value is an empty list.
C30_HelpBeforeCommand ==
    /\ MainSettled =>
        /\ ~parsed.ok =>
               mainExit = 1 /\ handlerCalls = <<>> /\ mainPc = "returned"
        /\ HelpOrNoCommand =>
               mainExit = 0 /\ handlerCalls = <<>> /\ mainPc = "returned"
        /\ ~HelpOrNoCommand /\ (UnknownCommand \/ MissingRequired) =>
               mainExit = 1 /\ handlerCalls = <<>> /\ mainPc = "returned"
    /\ ValidationAsSpecified

\* main returned 1 on auto-album without --location, no handler invoked
C30_Witness ==
    /\ mainPc = "returned"
    /\ parsed.ok /\ ~parsed.help
    /\ parsed.positionals = <<"auto-album">>
    /\ parsed.values["location"] = UndefinedValue
    /\ \A name \in {"name", "after", "before"} : parsed.values[name] = StringValue("x")
    /\ validation.missing = <<"location">>
    /\ mainExit = 1
    /\ handlerCalls = <<>>

\* main returned 0 on --help with a command name the registry lacks
C30_HelpWithUnknownReached ==
    /\ mainPc = "returned"
    /\ parsed.help
    /\ parsed.positionals = <<"bogus">>
    /\ mainExit = 0

\* main returned 1 on a command name the registry lacks
C30_UnknownReached ==
    /\ mainPc = "returned"
    /\ ~parsed.help
    /\ parsed.positionals = <<"bogus">>
    /\ mainExit = 1
    /\ handlerCalls = <<>>

\* validateRequiredOptions took an empty list of locations and a null name
\* for missing
C30_EmptyListReached ==
    /\ mainPc = "validated"
    /\ validateArgs.commandName = "auto-album"
    /\ validateArgs.values["location"] = ArrayValue(<<>>)
    /\ validateArgs.values["name"] = NullValue
    /\ validateArgs.values["after"] = StringValue("x")
    /\ validation.missing = <<"name", "location">>

\* validateRequiredOptions took an empty list for a value of an option
\* that is not repeatable
C30_EmptyListOfSingleReached ==
    /\ mainPc = "validated"
    /\ validateArgs.commandName = "stack"
    /\ validateArgs.values["cover"] = ArrayValue(<<>>)
    /\ validateArgs.values["raw"] = StringValue("x")
    /\ validation.valid

\* main invoked the handler of a command with all its required options
C30_HandlerReached ==
    /\ mainPc = "returned"
    /\ handlerCalls = <<"stack">>
    /\ mainExit = 0

\* ---------------------------------------------------------------- C31

\* The override when one is given, the environment variable otherwise
ResolvedUrl == IF overrides.baseurl # AbsentString THEN overrides.baseurl ELSE env.IMMICH_URL

ResolvedApiKey ==
    IF overrides.apikey # AbsentString THEN overrides.apikey ELSE env.IMMICH_API_KEY

AbsentOrEmpty(value) == value = AbsentString \/ value = GivenString("")

ConfigSettled == configPc \in {"returned", "threw"}

\* C31: getConfig resolves the URL and the API key each from the override
\* when one is given and from the environment variable otherwise; it throws
\* a ConfigError naming every absent or empty resolved value, and only
\* those, exactly when one of the two is absent or empty; otherwise it
\* returns the two resolved values unchanged.
C31_ConfigResolution ==
    ConfigSettled =>
        /\ configResult.threw = (AbsentOrEmpty(ResolvedUrl) \/ AbsentOrEmpty(ResolvedApiKey))
        /\ (configPc = "threw") = configResult.threw
        /\ configResult.threw =>
            /\ AbsentOrEmpty(ResolvedUrl) =
                   (\E k \in 1..Len(configResult.missing) :
                        configResult.missing[k] = "IMMICH_URL (or --baseurl)")
            /\ AbsentOrEmpty(ResolvedApiKey) =
                   (\E k \in 1..Len(configResult.missing) :
                        configResult.missing[k] = "IMMICH_API_KEY (or --apikey)")
        /\ ~configResult.threw =>
            /\ configResult.url = ResolvedUrl
            /\ configResult.apiKey = ResolvedApiKey

\* getConfig returned the URL of the override, with an environment URL set,
\* and the API key of the environment
C31_Witness ==
    /\ configPc = "returned"
    /\ overrides.baseurl = GivenString("cli")
    /\ env.IMMICH_URL = GivenString("env")
    /\ overrides.apikey = AbsentString
    /\ env.IMMICH_API_KEY = GivenString("env")
    /\ configResult.url = GivenString("cli")
    /\ configResult.apiKey = GivenString("env")

\* getConfig threw on an empty override although the environment has a URL
C31_EmptyOverrideReached ==
    /\ configPc = "threw"
    /\ overrides.baseurl = GivenString("")
    /\ env.IMMICH_URL = GivenString("env")
    /\ configResult.missing = <<"IMMICH_URL (or --baseurl)">>

\* getConfig threw naming both values
C31_BothMissingReached ==
    /\ configPc = "threw"
    /\ Len(configResult.missing) = 2

\* ---------------------------------------------------------------- C32

\* The counts of locationResults as a function of the position
CountAt == [k \in 1..Len(locationResults) |-> locationResults[k].count]

\* The sum of the counts recorded so far
CountsRecorded == SumTo(CountAt, Len(locationResults))

\* The ids of allAssetIds
RunningIdSet == { allAssetIds[k] : k \in 1..Len(allAssetIds) }

\* C32: after any prefix of the locations, the per-location counts recorded
\* so far sum to the size of the running set of asset ids; at the end they
\* sum to the number of unique assets, which is the number of ids handed
\* to createAlbum.
C32_CountsSumToSetSize ==
    /\ CountsRecorded = Cardinality(RunningIdSet)
    /\ Len(allAssetIds) = Cardinality(RunningIdSet)
    /\ \A k \in 1..Len(albumCalls) :
           /\ Len(locationResults) = Len(locations)
           /\ Len(albumCalls[k].assetIds) = CountsRecorded

\* Two locations were processed, the second returned an asset of the first
\* and a new one, and the album was created with the two
C32_Witness ==
    /\ Len(locationResults) = 2
    /\ locationIds = << {"1"}, {"1", "2"} >>
    /\ CountsRecorded = 2
    /\ Len(albumCalls) = 1
    /\ Len(albumCalls[1].assetIds) = 2

\* A location whose fields returned the same asset twice has been joined
\* after another location was processed
C32_FieldOverlapReached ==
    /\ autoPc = "joined"
    /\ Len(locationResults) = 1
    /\ SumTo([k \in 1..Len(LOCATION_FIELDS) |->
                 locationSearch.countsByField[LOCATION_FIELDS[k]]],
             Len(LOCATION_FIELDS)) > Len(locationSearch.assets)

\* ---------------------------------------------------------------- C33

\* C33: on an input of distinct asset ids no id is both the cover of a
\* group and on a raw list, no pair has its cover id equal to its raw id,
\* no id is the cover of one pair and the raw of another, and no createStack
\* call names the same id twice.
C33_CoverAndRawDisjoint ==
    DistinctIds =>
        /\ \A g, h \in 1..Len(stemToAssets), k \in 1..Len(assets) :
               k <= Len(stemToAssets[h].raw) /\ HasCover(stemToAssets[g]) =>
                   stemToAssets[g].cover # stemToAssets[h].raw[k]
        /\ \A p, q \in 1..Len(pairs) : pairs[p].coverAssetId # pairs[q].rawAssetId
        /\ \A c \in 1..Len(stackCalls) : stackCalls[c][1] # stackCalls[c][2]

\* Three assets of distinct ids gave two pairs and two createStack calls
C33_Witness ==
    /\ DistinctIds
    /\ Len(assets) = 3
    /\ Len(pairs) = 2
    /\ Len(stackCalls) = 2
    /\ createPc = "done"

\* ---------------------------------------------------------------- C34

\* A createStack or a createAlbum call has been issued
MutatingIssued == stackCalls # <<>> \/ albumCalls # <<>>

\* The read requests awaiting their answer: the searches of autoAlbum, the
\* page request of fetchAssets, the album listing and the album info
ReadsInFlight ==
    TotalInFlight + inFlight
    + (IF autoPc = "precheck" THEN 1 ELSE 0)
    + (IF stackPc = "albumInfo" THEN 1 ELSE 0)

\* A read request of the run has failed
ReadFailed ==
    \/ fetchPc = "failed"
    \/ thrown = "request failed"
    \/ \E f \in Fields : fetchers[f].status = "failed"

\* No read is in flight and none has failed once a mutating call is issued
C34_ReadsDoneAtMutation ==
    MutatingIssued =>
        /\ ReadsInFlight = 0
        /\ ~ReadFailed
        /\ thrown = "none"
        /\ stackCalls # <<>> => albumInfoCalls = 1 \/ fetchPc = "done"
        /\ albumCalls # <<>> =>
               /\ listingCalls = 1
               /\ Len(locationResults) = Len(locations)

\* The step issues a read request: a page request of fetchAssets, an album
\* info or listing request, the searches of a location or a further page
\* of a field fetch
IssuesRead ==
    \/ Len(requested') > Len(requested)
    \/ albumInfoCalls' > albumInfoCalls
    \/ listingCalls' > listingCalls
    \/ \E k \in 1..Len(searchesInFlight) : searchesInFlight'[k] > searchesInFlight[k]
    \/ \E f \in Fields : fetchers'[f].page > fetchers[f].page

\* No step that issues a mutating call, or follows one, issues a read, and
\* no step that follows a propagated error issues a mutating call
C34_NoReadAfterMutation ==
    /\ MutatingIssued' => ~IssuesRead
    /\ thrown # "none" => stackCalls' = stackCalls /\ albumCalls' = albumCalls

\* C34: createStack and createAlbum are issued only after every search,
\* album-info and album-listing request of the run was answered without
\* failure, and after the first mutating call no read request is issued;
\* a run in which a field fetch fails issues no mutating call.
C34_NoMutationOverlapsRead ==
    []C34_ReadsDoneAtMutation /\ [][C34_NoReadAfterMutation]_vars

\* createAlbum is in flight after the listing and the searches of two
\* locations, none of them in flight
C34_Witness ==
    /\ autoPc = "creating"
    /\ Len(locations) = 2
    /\ Len(albumCalls) = 1
    /\ listingCalls = 1
    /\ ReadsInFlight = 0

\* createStack was issued after two page requests, none of them in flight
C34_StackCallReached ==
    /\ stackCalls # <<>>
    /\ Len(requested) >= 2
    /\ ReadsInFlight = 0

\* A field fetch failed while the two other fetches of the location were
\* in flight; the command ended with the error and without a createAlbum
C34_FailureWithTwoInFlightReached ==
    /\ autoPc = "failed"
    /\ thrown = "request failed"
    /\ TotalInFlight = 2
    /\ albumCalls = <<>>

\* ---------------------------------------------------------------- C35

\* The command has ended, with an exit status or with a propagated error
CommandEnded ==
    \/ stackPc = "done" /\ stackExit # -1
    \/ autoPc \in {"done", "failed"} /\ exitStatus # -1

\* createStacks has returned after one createStack call per pair
CreateStacksEnded == createPc = "done" /\ Len(stackCalls) = Len(pairs)

\* On a catalog that answers every page request with a full page the
\* fetch never returns: after every answer it asks for the next page
FetchGoesOn ==
    matching = EndlessCatalog =>
        /\ fetchPc # "done"
        /\ \A k \in 1..Len(returned) : Len(returned[k]) = PageSize
        /\ fetchPc \in {"loop", "await"} =>
               /\ hasMore
               /\ page = Len(returned) + 1
        /\ stackPc = "done" => thrown # "none"
        /\ stackCalls = <<>>

\* C35: when every step that can be taken is eventually taken and the
\* catalog's answers end with a short page, every run of the stack and the
\* auto-album command eventually ends, with an exit status or a propagated
\* error, and createStacks, once called, returns after exactly one call
\* per pair. On a catalog that returns a full page for every page number
\* the fetch never returns.
C35_CommandsEnd ==
    /\ matching # EndlessCatalog => <>CommandEnded
    /\ (createPc = "loop") ~> CreateStacksEnded
    /\ [](createPc = "done" => Len(stackCalls) = Len(pairs))
    /\ []FetchGoesOn

\* The stack command ended with status 0 after two page requests and one
\* createStack call for each of its two pairs
C35_Witness ==
    /\ stackPc = "done"
    /\ stackExit = 0
    /\ thrown = "none"
    /\ Len(requested) = 2
    /\ Len(pairs) = 2
    /\ CreateStacksEnded

\* The fetch has received MaxPages full pages and is about to ask for more
C35_FullPagesReached ==
    /\ matching = EndlessCatalog
    /\ Len(returned) = MaxPages
    /\ fetchPc = "loop"
    /\ hasMore
    /\ page = MaxPages + 1

\* The auto-album command ended with status 0 after its createAlbum call
C35_AlbumEndedReached ==
    /\ autoPc = "done"
    /\ exitStatus = 0
    /\ Len(albumCalls) = 1

\* The stack command ended with the error of a failed page request
C35_ErrorEndReached ==
    /\ stackPc = "done"
    /\ thrown = "request failed"
    /\ Len(requested) = 2

\* ---------------------------------------------------------------- C36

\* The URLs of the model that are well-formed http or https URLs
HttpUrls ==
    { "https://immich.example.com", "http://localhost:2283",
      "HTTPS://IMMICH.EXAMPLE.COM", "http://192.168.1.10:2283/api" }

\* The k-th request was answered, and with "pong" or a user
AnsweredWell(k) == k <= Len(validateAnswers) /\ ~validateAnswers[k].threw

\* C36: validate issues its requests as a gated sequence: the ping only
\* for a well-formed http or https URL, the user request only after the
\* ping answered "pong", and nothing after a failed check; it returns 0
\* exactly when the URL check, the ping and the user request all passed,
\* and 1 otherwise.
C36_GatedChecks ==
    /\ validateCalls \in { <<>>, <<"pingServer">>, <<"pingServer", "getMyUser">> }
    /\ validateCalls # <<>> => validateConfig.url \in HttpUrls
    /\ Len(validateCalls) = 2 =>
           AnsweredWell(1) /\ validateAnswers[1].res = "pong"
    /\ Len(validateAnswers) <= Len(validateCalls)
    /\ validatePc = "returned" =>
           /\ validateExit \in {0, 1}
           /\ Len(validateAnswers) = Len(validateCalls)
           /\ (validateExit = 0) =
                  /\ validateConfig.url \in HttpUrls
                  /\ Len(validateCalls) = 2
                  /\ AnsweredWell(1) /\ validateAnswers[1].res = "pong"
                  /\ AnsweredWell(2)
           /\ (validateExit = 0) =
                  /\ validateResult.urlValid
                  /\ validateResult.serverReachable
                  /\ validateResult.authenticated
           /\ validateConfig.url \notin HttpUrls => validateCalls = <<>>
           /\ Len(validateAnswers) >= 1 /\ ~(AnsweredWell(1) /\ validateAnswers[1].res = "pong")
                  => validateCalls = <<"pingServer">>

\* validate returned 0 after the ping answered "pong" and the user request
\* answered
C36_Witness ==
    /\ validatePc = "returned"
    /\ validateExit = 0
    /\ validateCalls = <<"pingServer", "getMyUser">>
    /\ validateAnswers = << Answered("pong"), Answered("user") >>

\* validate returned 1 on a URL that parses with another scheme, without
\* a request
C36_OtherSchemeReached ==
    /\ validatePc = "returned"
    /\ validateConfig.url = "ftp://immich.example.com"
    /\ validateCalls = <<>>
    /\ validateExit = 1

\* validate returned 1 after a ping that answered something else than
\* "pong", without a user request
C36_UnexpectedAnswerReached ==
    /\ validatePc = "returned"
    /\ validateAnswers = << Answered("PONG") >>
    /\ validateCalls = <<"pingServer">>
    /\ validateResult.error = "Unexpected response from server"
    /\ validateExit = 1

\* validate returned 1 after the user request was rejected with status 401
C36_InvalidKeyReached ==
    /\ validatePc = "returned"
    /\ Len(validateAnswers) = 2
    /\ validateResult.error = "Invalid API key"
    /\ validateResult.serverReachable
    /\ validateExit = 1

\* ---------------------------------------------------------------- C37

\* assetDetails has an entry for id whose file name is that of an input
\* asset with that id
HasDetails(id) ==
    /\ id \in DOMAIN assetDetails
    /\ \E k \in 1..Len(assets) :
           /\ assets[k].id = id
           /\ assets[k].originalFileName = assetDetails[id].fileName

\* C37: every id stored as the cover of a group or on the raw list of a
\* group has an entry in assetDetails whose file name is that of an input
\* asset with that id, so the lookups on replacement and on pair emission
\* find their entry: every replaced-cover event and every pair carries
\* file names of input assets with the ids concerned.
C37_LookupsFindEntries ==
    /\ \A g \in 1..Len(stemToAssets) :
          /\ HasCover(stemToAssets[g]) => HasDetails(stemToAssets[g].cover)
          /\ \A k \in 1..Len(stemToAssets[g].raw) : HasDetails(stemToAssets[g].raw[k])
    /\ \A e \in 1..Len(replacedCovers) :
          \E k \in 1..Len(assets) :
              assets[k].originalFileName = replacedCovers[e].oldFile
    /\ \A p \in 1..Len(pairs) :
          /\ HasDetails(pairs[p].coverAssetId)
          /\ HasDetails(pairs[p].rawAssetId)
          /\ pairs[p].coverFileName = assetDetails[pairs[p].coverAssetId].fileName
          /\ pairs[p].rawFileName = assetDetails[pairs[p].rawAssetId].fileName

\* A cover was replaced and the group was emitted as a pair: both lookups
\* have been made
C37_Witness ==
    /\ pairsPc = "done"
    /\ Len(replacedCovers) >= 1
    /\ Len(pairs) >= 1
    /\ \E p \in 1..Len(pairs), e \in 1..Len(replacedCovers) :
           pairs[p].stem = replacedCovers[e].stem

====
